---------------------------- MODULE Spec2Model ----------------------------
(***************************************************************************)
(* TeslapLX: CAN bus ingestion with per-identifier rate limiting and       *)
(* fan-out (can.c), the ELM327 command interpreter and its filter engine   *)
(* (elm.c), and the buffered Bluetooth SPP transport (bt.c).               *)
(*                                                                         *)
(* Machine integers wider than TLC's are kept exactly, as tuples of 16-bit *)
(* limbs: a uint32_t is <<hi, lo>>, the 64-bit microsecond clock is        *)
(* <<top, hi, lo>> (top = the bits from 2^32 upwards).                     *)
(***************************************************************************)
EXTENDS Integers, Sequences, FiniteSets, TLC

----------------------------------------------------------------------------
(* Machine arithmetic *)

Limb == 2 ^ 16

\* a natural below 2^31 as a uint32_t
U32(n) == <<n \div Limb, n % Limb>>

\* a - b in uint32_t (wraps modulo 2^32)
U32Sub(a, b) ==
    LET lo == a[2] - b[2]
        bw == IF lo < 0 THEN 1 ELSE 0
    IN  <<(a[1] - b[1] - bw) % Limb, lo % Limb>>

U32Geq(a, b) == a[1] > b[1] \/ (a[1] = b[1] /\ a[2] >= b[2])

\* a natural below 2^31 as a value of the 64-bit clock
T64(n) == <<0, n \div Limb, n % Limb>>

T64Add(a, b) ==
    LET lo == a[3] + b[3]
        hi == a[2] + b[2] + (lo \div Limb)
    IN  <<a[1] + b[1] + (hi \div Limb), hi % Limb, lo % Limb>>

\* a - b for a >= b
T64Sub(a, b) ==
    LET lo == a[3] - b[3]
        b1 == IF lo < 0 THEN 1 ELSE 0
        hi == a[2] - b[2] - b1
        b2 == IF hi < 0 THEN 1 ELSE 0
    IN  <<a[1] - b[1] - b2, hi % Limb, lo % Limb>>

T64Geq(a, b) ==
    \/ a[1] > b[1]
    \/ a[1] = b[1] /\ a[2] > b[2]
    \/ a[1] = b[1] /\ a[2] = b[2] /\ a[3] >= b[3]

\* the cast (uint32_t)ts
Trunc32(t) == <<t[2], t[3]>>

\* a uint32_t widened to 64 bits
Widen64(u) == <<0, u[1], u[2]>>

NULL == [null |-> TRUE]

----------------------------------------------------------------------------
(* Bounds of the model *)

\* bus frames received by can_task in one behaviour
MaxRx == 3
\* subscriptions alive at the same time in the fan-out scenario
MaxSubs == 2
\* lines a terminal sends in one behaviour
MaxLines == 3

\* bytes the transmit ring holds (BT_SPP_RINGBUF_TX_SIZE stands at 10 KiB)
TxSize == 2
\* bytes one esp_spp_write takes (BT_SPP_DATA_MAX_SIZE stands at ESP_SPP_MAX_MTU)
Mtu == 2
\* bytes one bt_write is asked to send
MaxCount == 2
\* bytes bt_write is asked to send in one behaviour
MaxBytes == 4
\* bytes the receive ring holds (BT_SPP_RINGBUF_RX_SIZE stands at 100)
RxSize == 2
\* steps of the clock in the transport scenario
MaxTicks == 1
\* connections the server accepts in one behaviour
MaxOpen == 1
\* iterations of the simulation task in one behaviour
MaxSimu == 2

\* how long can_receive may block before a frame arrives: just under and
\* just over half of can_id_delay_us, and one whole wrap of the 32-bit
\* timestamp (2^32 us, about 71.6 minutes of bus silence)
Deltas == {T64(45454), T64(45455), <<1, 0, 0>>}

\* the same in the fan-out scenario: 100 ms
FanDeltas == {T64(100000)}

\* the clock when the tasks start (one second after boot)
BootTime == T64(1000000)

\* identifiers seen on the bus: 0x132, 0x257 (allow-listed), 0x7E8 (not)
BusIds == {306, 599, 2024}

\* the itemNum a subscriber asks for
ItemNums == {1, 2}

----------------------------------------------------------------------------
(* can.c *)

CAN_MAX_CB == 10

can_id ==
    << 12, 79, 130, 258, 259, 264, 280, 291, 294, 297, 306, 317,
       322, 340, 390, 421, 468, 469, 472, 513, 522, 524, 530, 532,
       533, 535, 541, 545, 548, 552, 553, 558, 573, 577, 579, 580,
       583, 585, 594, 599, 605, 609, 611, 612, 614, 615, 616, 641,
       642, 644, 647, 648, 658, 659, 669, 680, 691, 692, 694, 705,
       708, 722, 737, 741, 753, 755, 768, 769, 777, 786, 787, 789,
       792, 796, 797, 800, 801, 812, 818, 819, 820, 821, 822, 826,
       850, 886, 897, 899, 915, 917, 918, 921, 929, 946, 947, 950,
       955, 962, 963, 978, 984, 985, 994, 995, 1001, 1010, 1013, 1022,
       1025, 1029, 1066, 1085, 1310, 1320, 1345, 1366, 1367, 1493, 1495, 1576,
       1577, 1622, 1859, 1879, 1885, 1962, 2005, 2047 >>

can_id_count == Len(can_id)

can_id_delay_us == U32(1000000 \div 11)

VARIABLES
    scn,                \* which scenario the behaviour explores
    now,                \* esp_timer_get_time(), 64-bit microseconds
    can_rx_ringbuf,     \* the subscription registry, CAN_MAX_CB slots
    can_id_last_us,     \* per allow-list entry, when it was last forwarded
    can_simu_task_run,  \* the simulation task's run flag
    simu_pc,            \* where the simulation task is in its loop
    can_task_pc,        \* "run" until the receive task breaks out of its loop
    rx,                 \* the last iteration of can_task: identifier, outcome
    ingest,             \* per identifier, its last two ingestions (time, outcome)
    raised,             \* the last call of _can_raise and what it did
    nRx                 \* what MaxRx counts

canVars == <<can_rx_ringbuf, can_id_last_us, can_simu_task_run, simu_pc,
             can_task_pc, rx, ingest, raised, nRx>>

VARIABLES
    G,              \* the session block *g of elm_do
    elm_pc,         \* where elm_do is: "read", "stop_wait", "end_wait", "ended", "rebooted"
    reply,          \* what the last elm_do_cmd wrote
    tx,             \* what the last step wrote to the session output
    disp,           \* the last line handed to elm_do_cmd (seq alternates per call)
    pass_rules,     \* the pass rules acknowledged with OK since the last clear
    block_rules,    \* the block rules acknowledged with OK since the last clear
    mon,            \* how many monitor tasks are created / in the loop / leaving; nul: a NUL byte was read since the monitor flag was set; intr: a byte stopped the monitor and none was started since
    mon_last,       \* the last frame a monitor task tested, and the outcome
    nLines          \* what MaxLines counts

elmVars == <<G, elm_pc, reply, tx, disp, pass_rules, block_rules, mon,
             mon_last, nLines>>

VARIABLES
    spp_handle,             \* the connection that owns the rings, 0 for none
    spp_tx_buffer,          \* the transmit ring (a byte buffer), NULL when closed
    spp_writing,            \* a drain is believed outstanding
    spp_last_us,            \* when esp_spp_write last succeeded (uint32_t)
    spp_second_connexion,   \* a second connection was refused and is closing
    writer,                 \* the session task: where it is in bt_write / _write
    cb,                     \* the Bluetooth task: where esp_spp_cb is in _write
    link,                   \* the SPP stack: writes not yet reported, congestion
    bt_call,                \* the last bt_write call: arguments, outcome
    sent,                   \* bytes accepted, bytes given to esp_spp_write, the last chunk
    nBt,                    \* what MaxTicks and MaxOpen count
    spp_rx_buffer,          \* the receive ring (a byte buffer), NULL when closed
    rcv,                    \* bytes the link delivered, bytes bt_read returned
    bt_op                   \* the last call of _read, bt_read, bt_close, a query or a discard

VARIABLES
    mt,     \* the monitor task of the monitor scenario: its position, last_us
    mq,     \* the frames waiting in that task's queue, with their timestamps
    kb      \* the typing scenario: keys still to come, line[0 .. pos-1], the last key and what it wrote

VARIABLES
    heap,   \* the two-session scenario: the blocks malloc hands out, NULL while free
    ses     \* and, per transport, where its elm_do is, its g, the last line and what it wrote

sesVars == <<heap, ses>>

VARIABLES
    rt,     \* the registry scenario: per task, where it is in can_ringbuf_new, its queue, its last call
    ms,     \* the frames the timed monitor task has dequeued in its run, and the frame lines it has written
    simu,   \* the simulation task: last_tick of vTaskDelayUntil (as a time), and what MaxSimu counts
    fo      \* _can_raise step by step: the slot it is at, the handle it read, the queues vRingbufferDelete has freed, the freed queues it sent to

extVars == <<rt, ms, simu, fo>>

monVars == <<mt, mq, kb, sesVars, extVars>>

btVars == <<spp_handle, spp_tx_buffer, spp_writing, spp_last_us,
            spp_second_connexion, writer, cb, link, bt_call, sent, nBt,
            spp_rx_buffer, rcv, bt_op>>

vars == <<scn, now, canVars, elmVars, btVars, monVars>>

\* what the actions of one source file leave alone
notCan == <<elmVars, btVars, monVars>>
notElm == <<btVars, monVars>>
notBt == <<scn, canVars, elmVars, monVars>>
\* what the transmit side of bt.c leaves alone
notTx == <<spp_rx_buffer, rcv, bt_op, notBt>>

\* what the scenario allows
SubLimit == IF scn \in {"rate", "mix"} THEN 1 ELSE MaxSubs
RxDeltas == IF scn \in {"rate", "mix"} THEN Deltas ELSE FanDeltas
RxLimit == IF scn = "rate" THEN MaxRx ELSE 1

\* the scenario in which the clock moves with the simulation task
SimuTimed == scn = "mix"

\* can_message_timestamp_t (the payload passes through uninterpreted)
Frame(id, ts) == [identifier |-> id, timestamp |-> ts]

\* xRingbufferCreateNoSplit(sizeof(can_message_timestamp_t), itemNum)
RingbufCreateNoSplit(itemNum) == [size |-> itemNum, items |-> <<>>, h |-> 0]

\* xRingbufferSend(rb, item, sizeof item, ticksToWait) on a no-split buffer of
\* equal-sized items: the item is appended if there is room; if not the call
\* waits up to ticksToWait for room and then gives up.
RingbufSend(rb, item, ticksToWait) ==
    IF Len(rb.items) < rb.size
    THEN [done |-> TRUE, rb |-> [rb EXCEPT !.items = Append(@, item)], waited |-> FALSE]
    ELSE [done |-> FALSE, rb |-> rb, waited |-> ticksToWait > 0]

LiveSubs == {i \in 1..CAN_MAX_CB : can_rx_ringbuf[i] # NULL}

\* the xRingbufferSend of _can_raise on slot i
RaiseSend(i, msg) == RingbufSend(can_rx_ringbuf[i], msg, 0)

\* a _can_raise that would give up at the first full queue (for comparison)
RaiseSlotsUntilFull ==
    {i \in 1..CAN_MAX_CB :
        \A j \in 1..(i - 1) :
            can_rx_ringbuf[j] = NULL
            \/ Len(can_rx_ringbuf[j].items) < can_rx_ringbuf[j].size}

\* the slots _can_raise visits: every slot of the registry
RaiseSlots == 1..CAN_MAX_CB

\* _can_raise(msg)
_can_raise(msg) ==
    LET sends == {i \in RaiseSlots : can_rx_ringbuf[i] # NULL}
    IN  /\ can_rx_ringbuf' =
            [i \in 1..CAN_MAX_CB |->
                IF i \in sends THEN RaiseSend(i, msg).rb ELSE can_rx_ringbuf[i]]
        /\ raised' = [msg |-> msg,
                      seq |-> 1 - raised.seq,
                      sent |-> {i \in sends : RaiseSend(i, msg).done},
                      full |-> {i \in sends : ~RaiseSend(i, msg).done},
                      waited |-> \E i \in sends : RaiseSend(i, msg).waited]

\* a lookup that would fall back on the first entry (for comparison)
CanIdIndexOrFirst(id) ==
    IF \E i \in 1..can_id_count : can_id[i] = id
    THEN CHOOSE i \in 1..can_id_count : can_id[i] = id
    ELSE 1

\* index of the first allow-list entry equal to id, 0 if there is none
CanIdIndex(id) ==
    IF \E i \in 1..can_id_count : can_id[i] = id
    THEN CHOOSE i \in 1..can_id_count :
            can_id[i] = id /\ \A j \in 1..(i - 1) : can_id[j] # id
    ELSE 0

\* a comparison that would be strict (for comparison)
CanDelayExceeded(ts, last) == ~U32Geq(can_id_delay_us, U32Sub(ts, last))

\* the comparison of _can_filter_id
CanDelayElapsed(ts, last) == U32Geq(U32Sub(ts, last), can_id_delay_us)

\* a _can_filter_id that would note the time of every frame (for comparison)
CanFilterIdNoteAll(id, ts) ==
    LET i == CanIdIndex(id)
    IN  IF i = 0
        THEN [ok |-> FALSE, last |-> can_id_last_us]
        ELSE [ok |-> CanDelayElapsed(ts, can_id_last_us[i]),
              last |-> [can_id_last_us EXCEPT ![i] = ts]]

\* _can_filter_id(id, ts): the result and the rate-limit table afterwards
CanFilterId(id, ts) ==
    LET i == CanIdIndex(id)
    IN  IF i = 0
        THEN [ok |-> FALSE, last |-> can_id_last_us]
        ELSE IF CanDelayElapsed(ts, can_id_last_us[i])
             THEN [ok |-> TRUE, last |-> [can_id_last_us EXCEPT ![i] = ts]]
             ELSE [ok |-> FALSE, last |-> can_id_last_us]

\* when the last forwarded frame of id was ingested (64-bit), 0 before the first
LastForward(id) ==
    IF ingest[id] = <<>>
    THEN T64(0)
    ELSE LET p == ingest[id][Len(ingest[id])]
         IN  IF p.fwd THEN p.ts ELSE p.since

\* can_init(): the table and the registry are zeroed, the receive task starts
CanStart(registry) ==
    /\ can_rx_ringbuf = registry
    /\ can_id_last_us = [i \in 1..can_id_count |-> U32(0)]
    /\ can_simu_task_run = FALSE
    /\ simu = [last_tick |-> T64(0), n |-> 0]
    /\ fo = [pc |-> "idle", i |-> 0, rb |-> 0, freed |-> {}, late |-> {}, n |-> 0]
    /\ simu_pc = "none"
    /\ can_task_pc = "run"
    /\ rx = [id |-> 0, fwd |-> FALSE]
    /\ ingest = [id \in BusIds |-> <<>>]
    /\ raised = [msg |-> NULL, seq |-> 0, sent |-> {}, full |-> {}, waited |-> FALSE]
    /\ nRx = 0

\* static RingbufHandle_t can_rx_ringbuf[CAN_MAX_CB] = {0}
CanInit == CanStart([i \in 1..CAN_MAX_CB |-> NULL])

\* one iteration of can_task's loop: can_receive blocks for d, then returns a
\* frame with identifier id, or fails
can_task ==
    /\ can_task_pc = "run"
    /\ nRx < RxLimit
    /\ \E d \in RxDeltas, id \in BusIds, err \in {"ESP_OK", "ESP_FAIL"} :
        /\ now' = T64Add(now, d)
        /\ IF err # "ESP_OK"
           THEN /\ can_task_pc' = "stopped"
                /\ UNCHANGED <<can_rx_ringbuf, can_id_last_us, rx, ingest, raised>>
           ELSE LET ts == Trunc32(now')
                    f == CanFilterId(id, ts)
                    e == [ts |-> now', fwd |-> f.ok, since |-> LastForward(id)]
                IN  /\ can_id_last_us' = f.last
                    /\ rx' = [id |-> id, fwd |-> f.ok]
                    /\ ingest' = [ingest EXCEPT ![id] =
                                    IF Len(@) = 2 THEN <<@[2], e>> ELSE Append(@, e)]
                    /\ IF f.ok
                       THEN _can_raise(Frame(id, now'))
                       ELSE UNCHANGED <<can_rx_ringbuf, raised>>
                    /\ UNCHANGED can_task_pc
    /\ nRx' = nRx + 1
    /\ UNCHANGED notCan
    /\ UNCHANGED <<scn, can_simu_task_run, simu_pc>>

\* can_ringbuf_new(itemNum): the first free slot gets a new queue
can_ringbuf_new ==
    /\ Cardinality(LiveSubs) < SubLimit
    /\ \E itemNum \in ItemNums :
        IF \E i \in 1..CAN_MAX_CB : can_rx_ringbuf[i] = NULL
        THEN LET i == CHOOSE k \in 1..CAN_MAX_CB :
                        can_rx_ringbuf[k] = NULL
                        /\ \A j \in 1..(k - 1) : can_rx_ringbuf[j] # NULL
             IN  can_rx_ringbuf' =
                    [can_rx_ringbuf EXCEPT ![i] = RingbufCreateNoSplit(itemNum)]
        ELSE UNCHANGED can_rx_ringbuf
    /\ UNCHANGED notCan
    /\ UNCHANGED <<scn, now, can_id_last_us, can_simu_task_run, simu_pc,
                   can_task_pc, rx, ingest, raised, nRx>>

\* can_ringbuf_del(ringbuf) of a registered queue
can_ringbuf_del ==
    /\ \E i \in LiveSubs : can_rx_ringbuf' = [can_rx_ringbuf EXCEPT ![i] = NULL]
    /\ UNCHANGED notCan
    /\ UNCHANGED <<scn, now, can_id_last_us, can_simu_task_run, simu_pc,
                   can_task_pc, rx, ingest, raised, nRx>>

\* a subscriber takes the oldest frame of its queue
\* (xRingbufferReceive ... vRingbufferReturnItem in elm_monitor_task)
ringbuf_receive ==
    /\ \E i \in LiveSubs :
        /\ can_rx_ringbuf[i].items # <<>>
        /\ can_rx_ringbuf' = [can_rx_ringbuf EXCEPT ![i].items = Tail(@)]
    /\ UNCHANGED notCan
    /\ UNCHANGED <<scn, now, can_id_last_us, can_simu_task_run, simu_pc,
                   can_task_pc, rx, ingest, raised, nRx>>

\* vTaskDelayUntil(&last_tick, 10): ten ticks of 10 ms
SimuPeriod == T64(100000)

\* can_simu_start(): starts the simulation task unless it runs; the task
\* reads last_tick = xTaskGetTickCount()
can_simu_start ==
    /\ ~can_simu_task_run
    /\ simu_pc = "none"
    /\ can_simu_task_run' = TRUE
    /\ simu_pc' = "delay"
    /\ simu' = IF SimuTimed THEN [simu EXCEPT !.last_tick = now] ELSE simu
    /\ UNCHANGED <<elmVars, btVars, mt, mq, kb, sesVars, rt, ms, fo>>
    /\ UNCHANGED <<scn, now, can_rx_ringbuf, can_id_last_us, can_task_pc,
                   rx, ingest, raised, nRx>>

\* can_simu_stop()
can_simu_stop ==
    /\ can_simu_task_run
    /\ can_simu_task_run' = FALSE
    /\ UNCHANGED notCan
    /\ UNCHANGED <<scn, now, can_rx_ringbuf, can_id_last_us, simu_pc,
                   can_task_pc, rx, ingest, raised, nRx>>

\* can_simu_task: the loop test, then vTaskDelayUntil, which returns ten
\* ticks after last_tick, or at once when that time has passed, and then the
\* frame 0x132 with the time of that moment.  Where the scenario does not
\* time the simulation the clock stays
can_simu_task_132 ==
    /\ simu_pc = "delay"
    /\ (SimuTimed /\ can_simu_task_run) => simu.n < MaxSimu
    /\ IF can_simu_task_run
       THEN \E wake \in {T64Add(simu.last_tick, SimuPeriod)} :
            /\ now' = IF SimuTimed /\ T64Geq(wake, now) THEN wake ELSE now
            /\ simu' = IF SimuTimed
                       THEN [last_tick |-> wake, n |-> simu.n + 1]
                       ELSE simu
            /\ _can_raise(Frame(306, now'))
            /\ simu_pc' = "second"
       ELSE /\ simu_pc' = "none"
            /\ UNCHANGED <<now, simu, can_rx_ringbuf, raised>>
    /\ UNCHANGED <<elmVars, btVars, mt, mq, kb, sesVars, rt, ms, fo>>
    /\ UNCHANGED <<scn, can_id_last_us, can_simu_task_run, can_task_pc,
                   rx, ingest, nRx>>

\* can_simu_task: the frame 0x257 of the same iteration
can_simu_task_257 ==
    /\ simu_pc = "second"
    /\ _can_raise(Frame(599, now))
    /\ simu_pc' = "delay"
    /\ UNCHANGED notCan
    /\ UNCHANGED <<scn, now, can_id_last_us, can_simu_task_run, can_task_pc,
                   rx, ingest, nRx>>

\* the bus, and one subscriber coming and going
RateNext ==
    \/ can_task
    \/ can_ringbuf_new
    \/ can_ringbuf_del
    \/ ringbuf_receive

\* the bus, the simulation task and subscribers coming and going
CanNext ==
    \/ can_task
    \/ can_ringbuf_new
    \/ can_ringbuf_del
    \/ can_simu_start
    \/ can_simu_stop
    \/ can_simu_task_132
    \/ can_simu_task_257

----------------------------------------------------------------------------
(* C strings: sequences of one-character strings *)

Lower == <<"a", "b", "c", "d", "e", "f", "g", "h", "i", "j", "k", "l", "m",
           "n", "o", "p", "q", "r", "s", "t", "u", "v", "w", "x", "y", "z">>
Upper == <<"A", "B", "C", "D", "E", "F", "G", "H", "I", "J", "K", "L", "M",
           "N", "O", "P", "Q", "R", "S", "T", "U", "V", "W", "X", "Y", "Z">>
HexDigits == <<"0", "1", "2", "3", "4", "5", "6", "7", "8", "9",
               "A", "B", "C", "D", "E", "F">>

\* the terminating zero, read where a string has ended
NUL == ""

UpperOf == [c \in {Lower[i] : i \in 1..26} |-> Upper[CHOOSE i \in 1..26 : Lower[i] = c]]
TO_UPPER(c) == IF c \in DOMAIN UpperOf THEN UpperOf[c] ELSE c

\* c[k], k counted from 0
CharAt(c, k) == IF k < Len(c) THEN c[k + 1] ELSE NUL

\* c + n
Drop(c, n) == SubSeq(c, n + 1, Len(c))

\* strcasecmp(a, b) == 0
StrCaseEq(a, b) ==
    /\ Len(a) = Len(b)
    /\ \A i \in 1..Len(a) : TO_UPPER(a[i]) = TO_UPPER(b[i])

\* strncasecmp(a, b, n) == 0
StrNCaseEq(a, b, n) ==
    LET m(s) == IF Len(s) < n THEN Len(s) ELSE n
    IN  StrCaseEq(SubSeq(a, 1, m(a)), SubSeq(b, 1, m(b)))

\* while (*c == ' ') c++;
RECURSIVE SkipSpaces(_)
SkipSpaces(c) ==
    IF c # <<>> /\ Head(c) = " " THEN SkipSpaces(Tail(c)) ELSE c

\* the value of a hexadecimal digit, -1 for any other character
HexOf == [c \in {HexDigits[i] : i \in 1..16} |-> (CHOOSE i \in 1..16 : HexDigits[i] = c) - 1]
HexVal(c) == IF TO_UPPER(c) \in DOMAIN HexOf THEN HexOf[TO_UPPER(c)] ELSE -1

\* (h << 4) + d on uint32_t, d < 16
U32Shl4Add(h, d) ==
    <<(h[1] * 16 + h[2] \div 4096) % Limb, ((h[2] * 16) % Limb) + d>>

\* a & b, a | b on n-bit words and on uint32_t
RECURSIVE AndBits(_, _, _)
AndBits(a, b, n) ==
    IF n = 0 THEN 0
    ELSE (a % 2) * (b % 2) + 2 * AndBits(a \div 2, b \div 2, n - 1)
U32And(a, b) == <<AndBits(a[1], b[1], 16), AndBits(a[2], b[2], 16)>>
U32Or(a, b) ==
    <<a[1] + b[1] - AndBits(a[1], b[1], 16), a[2] + b[2] - AndBits(a[2], b[2], 16)>>
U32Plus(a, b) ==
    <<(a[1] + b[1] + (a[2] + b[2]) \div Limb) % Limb, (a[2] + b[2]) % Limb>>

\* elm_read_hexa(c, &h): the value read and where reading stopped
RECURSIVE ReadHexaFrom(_, _)
ReadHexaFrom(c, h) ==
    IF c = <<>> \/ HexVal(Head(c)) < 0
    THEN [h |-> h, rest |-> c]
    ELSE ReadHexaFrom(Tail(c), U32Shl4Add(h, HexVal(Head(c))))
elm_read_hexa(c) == ReadHexaFrom(c, U32(0))

----------------------------------------------------------------------------
(* elm.c *)

ELM_ST_FILTER_LEN == 100
ELM_BUFFER_LEN == 128

\* the transports whose tasks call elm_do in the two-session scenario
Transports == {"bt", "tcp"}

\* the tasks that call can_ringbuf_new and can_ringbuf_del in the registry
\* scenario (the monitor tasks of two sessions)
RegTasks == {1, 2}

\* the queues registered when the registry scenario starts
RegFill == {0, CAN_MAX_CB - 2, CAN_MAX_CB - 1, CAN_MAX_CB}

\* the heap blocks that can hold an elm_globals_t
MaxBlocks == 2
Blocks == 1 .. MaxBlocks

ELM_VERSION_STRING == "ELM327 v1.3a Teslap"
ST_VERSION_STRING == "STN1110 r0.1 Teslap"
ELM_DEVICE_STRING == "Espnux"
ELM_PROMPT == ">"
ELM_QUERY_PROMPT == "?"
ELM_OK_PROMPT == "OK"
ELM_ERROR_PROMPT == "ERROR"
ELM_NODATA_PROMPT == "NO DATA"

\* elm_protocols: num and desc
elm_protocols ==
    << <<"0", "Automatic">>, <<"1", "SAE J1850 PWM">>, <<"2", "SAE J1850 VPW">>,
       <<"3", "ISO 9141-2">>, <<"4", "ISO 14230-4 (KWP 5BAUD)">>,
       <<"5", "ISO 14230-4 (KWP FAST)">>, <<"6", "ISO 15765-4 (CAN 11/500)">>,
       <<"7", "ISO 15765-4 (CAN 29/500)">>, <<"8", "ISO 15765-4 (CAN 11/250)">>,
       <<"9", "ISO 15765-4 (CAN 29/250)">>, <<"A", "SAE J1939 (CAN 29/250)">>,
       <<"B", "USER1 CAN">>, <<"C", "USER2 CAN">> >>

\* a char* that is NULL, or points to a string
NullStr == [null |-> TRUE]
StrPtr(s) == [null |-> FALSE, str |-> s]

\* elm_filter_t
Rule(p, m) == [pattern |-> p, mask |-> m]

\* A table elm_filter_t[ELM_ST_FILTER_LEN] is kept as the sequence of its
\* slots up to the last one that is not {0, 0}; the slots after it are zero.
\* ZeroFilters is the table after memset(g, 0, sizeof(*g)).
ZeroFilters == <<>>
SlotAt(filter, i) == IF i <= Len(filter) THEN filter[i] ELSE Rule(U32(0), U32(0))
TrimZero(slots) ==
    SubSeq(slots, 1,
           CHOOSE n \in 0 .. Len(slots) :
               /\ n = 0 \/ slots[n] # Rule(U32(0), U32(0))
               /\ \A k \in (n + 1) .. Len(slots) : slots[k] = Rule(U32(0), U32(0)))
SetSlot(filter, i, r) ==
    TrimZero([k \in 1..(IF i > Len(filter) THEN i ELSE Len(filter)) |->
                IF k = i THEN r ELSE SlotAt(filter, k)])

\* the first slot of a table with mask == 0 (ELM_ST_FILTER_LEN + 1 if none)
FirstFreeFrom(filter, i) ==
    CHOOSE n \in i .. (ELM_ST_FILTER_LEN + 1) :
        /\ n > ELM_ST_FILTER_LEN \/ SlotAt(filter, n).mask = U32(0)
        /\ \A k \in i .. (n - 1) : SlotAt(filter, k).mask # U32(0)
FirstFree(filter) == FirstFreeFrom(filter, 1)

elm_filter_clear(filter) ==
    TrimZero([k \in 1..Len(filter) |->
                IF k < FirstFree(filter) THEN Rule(U32(0), U32(0)) ELSE filter[k]])

\* elm_filter_add: the result and the table afterwards
elm_filter_add(filter, pattern, mask) ==
    IF FirstFree(filter) <= ELM_ST_FILTER_LEN
    THEN [ok |-> TRUE,
          filter |-> SetSlot(filter, FirstFree(filter), Rule(pattern, mask))]
    ELSE [ok |-> FALSE, filter |-> filter]

\* (id & mask) == (pattern & mask)
RuleMatch(r, id) == U32And(id, r.mask) = U32And(r.pattern, r.mask)

\* the loops of elm_filter_test over a table, from slot i: whether a rule
\* before the first slot with mask == 0 matches
FilterScan(filter, i, id) ==
    \E k \in i .. (FirstFreeFrom(filter, i) - 1) : RuleMatch(SlotAt(filter, k), id)

\* an elm_filter_test that would look at the AT filter only (for comparison)
elm_filter_test_at(g, id) ==
    IF id = U32(0) THEN FALSE ELSE RuleMatch(g.elm_filter, id)

elm_filter_test(g, id) ==
    IF id = U32(0) THEN FALSE
    ELSE IF ~RuleMatch(g.elm_filter, id) THEN FALSE
    ELSE LET pass == IF SlotAt(g.pass_filter, 1).mask # U32(0)
                     THEN FilterScan(g.pass_filter, 1, id)
                     ELSE TRUE
         IN  IF pass /\ SlotAt(g.block_filter, 1).mask # U32(0)
             THEN ~FilterScan(g.block_filter, 1, id)
             ELSE pass

\* the session block after memset(g, 0, sizeof(*g))
ZeroGlobals ==
    [elm_echo |-> FALSE, elm_linefeed |-> FALSE, elm_headers |-> FALSE,
     elm_spaces |-> FALSE, elm_dlc |-> FALSE, elm_timeout |-> U32(0),
     elm_device_identifier |-> NullStr, elm_previous_cmd |-> <<>>,
     elm_memory |-> FALSE, elm_adaptive |-> 0,
     elm_can_auto_format |-> FALSE, elm_can_flow_control |-> FALSE,
     elm_can_silent_mode |-> FALSE, elm_long_message |-> FALSE,
     elm_protocol |-> NUL, elm_protocol_auto |-> FALSE,
     elm_monitor |-> FALSE, elm_monitor_task_run |-> FALSE,
     elm_filter |-> Rule(U32(0), U32(0)),
     pass_filter |-> ZeroFilters, block_filter |-> ZeroFilters]

elm_reset(g) ==
    [g EXCEPT
        !.elm_echo = TRUE,
        !.elm_linefeed = TRUE,
        !.elm_headers = TRUE,
        !.elm_spaces = TRUE,
        !.elm_dlc = FALSE,
        !.elm_timeout = U32(5000),
        !.elm_previous_cmd = <<>>,
        !.elm_memory = TRUE,
        !.elm_adaptive = 1,
        !.elm_can_auto_format = FALSE,
        !.elm_can_flow_control = TRUE,
        !.elm_can_silent_mode = TRUE,
        !.elm_long_message = FALSE,
        !.elm_protocol = "0",
        !.elm_protocol_auto = TRUE,
        !.elm_monitor = FALSE,
        !.elm_filter = Rule(U32(0), U32(0)),
        !.pass_filter = elm_filter_clear(g.pass_filter),
        !.block_filter = elm_filter_clear(g.block_filter)]

\* what is written: a sequence of printed strings
ELM_NEWLINE(g) == IF g.elm_linefeed THEN "\r\n" ELSE "\r"
elm_newline(g) == <<ELM_NEWLINE(g)>>
\* printf(str) of a char*: nothing for NULL, else its characters
PrintStr(p) == IF p.null THEN <<>> ELSE p.str
elm_writeln(g, printed) == printed \o elm_newline(g)
elm_write_ok(g) == <<ELM_OK_PROMPT>> \o elm_newline(g)
elm_write_error(g) == <<ELM_ERROR_PROMPT>> \o elm_newline(g)
elm_write_ok_error(g, ok) == IF ok THEN elm_write_ok(g) ELSE elm_write_error(g)

\* elm_get_protocol(protocol_num).desc, the first entry if none has that num
elm_get_protocol(protocol_num) ==
    IF \E i \in 1..Len(elm_protocols) : elm_protocols[i][1] = protocol_num
    THEN elm_protocols[CHOOSE i \in 1..Len(elm_protocols) :
                            elm_protocols[i][1] = protocol_num]
    ELSE elm_protocols[1]

\* what elm_do_cmd did: the session block afterwards, what it wrote, the call
\* it made outside the session (fx), and for the filter commands which rule it
\* acknowledged (note)
NoNote == [op |-> "none", pattern |-> U32(0), mask |-> U32(0)]
Ret(g, out) == [g |-> g, out |-> out, fx |-> "none", note |-> NoNote]
RetFx(g, out, fx) == [g |-> g, out |-> out, fx |-> fx, note |-> NoNote]
RetNote(g, out, op, p, m) ==
    [g |-> g, out |-> out, fx |-> "none",
     note |-> [op |-> op, pattern |-> p, mask |-> m]]

\* _err:
ElmErrOk(g) == Ret(g, elm_write_ok(g))

ElmErr(g) == Ret(g, elm_writeln(g, <<ELM_QUERY_PROMPT>>))

\* elm_monitor_start as called from elm_do_cmd
elm_monitor_start(g) ==
    IF g.elm_monitor
    THEN Ret(g, <<>>)
    ELSE RetFx([g EXCEPT !.elm_monitor = TRUE], <<>>, "monitor")

\* c[k] == '0' || c[k] == '1'
Is01(c, k) == CharAt(c, k) = "0" \/ CharAt(c, k) = "1"

\* STFPA / STFBA <pattern>,<mask>, c after the command word
FilterAddCmd(g, c0, pass) ==
    LET c1 == SkipSpaces(c0)
        p == elm_read_hexa(c1)
        c2 == SkipSpaces(p.rest)
        m == elm_read_hexa(SkipSpaces(Drop(c2, 1)))
        a == elm_filter_add(IF pass THEN g.pass_filter ELSE g.block_filter, p.h, m.h)
    IN  IF c1 = <<>> THEN ElmErr(g)
        ELSE IF CharAt(c2, 0) # "," THEN ElmErr(g)
        ELSE IF ~a.ok THEN Ret(g, elm_writeln(g, <<"??">>))
        ELSE IF pass
             THEN RetNote([g EXCEPT !.pass_filter = a.filter], elm_write_ok(g),
                          "pass_add", p.h, m.h)
             ELSE RetNote([g EXCEPT !.block_filter = a.filter], elm_write_ok(g),
                          "block_add", p.h, m.h)

\* the ST commands, c after "ST"
StCmd(g, c) ==
    IF StrCaseEq(c, <<"D", "I">>)
    THEN Ret(g, elm_writeln(g, <<ST_VERSION_STRING>>))
    ELSE IF StrCaseEq(c, <<"F">>)
    THEN Ret(g, <<>>)
    ELSE IF StrCaseEq(c, <<"F", "A", "C">>) \/ StrCaseEq(c, <<"F", "C", "A">>)
    THEN RetNote([g EXCEPT !.pass_filter = elm_filter_clear(@),
                           !.block_filter = elm_filter_clear(@)],
                 elm_write_ok(g), "all_clear", U32(0), U32(0))
    ELSE IF StrNCaseEq(c, <<"F", "P", "A">>, 3) \/ StrNCaseEq(c, <<"F", "A", "P">>, 3)
    THEN FilterAddCmd(g, Drop(c, 3), TRUE)
    ELSE IF StrCaseEq(c, <<"F", "P", "C">>) \/ StrCaseEq(c, <<"F", "C", "P">>)
    THEN RetNote([g EXCEPT !.pass_filter = elm_filter_clear(@)],
                 elm_write_ok(g), "pass_clear", U32(0), U32(0))
    ELSE IF StrNCaseEq(c, <<"F", "B", "A">>, 3) \/ StrNCaseEq(c, <<"F", "A", "B">>, 3)
    THEN FilterAddCmd(g, Drop(c, 3), FALSE)
    ELSE IF StrCaseEq(c, <<"F", "B", "C">>) \/ StrCaseEq(c, <<"F", "C", "B">>)
    THEN RetNote([g EXCEPT !.block_filter = elm_filter_clear(@)],
                 elm_write_ok(g), "block_clear", U32(0), U32(0))
    ELSE IF StrCaseEq(c, <<"M">>) \/ StrCaseEq(c, <<"M", "A">>)
    THEN elm_monitor_start(g)
    ELSE ElmErr(g)

\* the loop of ATCRA<hex...>: pattern f and mask m, X a wildcard nibble
RECURSIVE CraScan(_, _, _)
CraScan(c, f, m) ==
    IF c = <<>> THEN Rule(f, m)
    ELSE IF HexVal(Head(c)) >= 0
    THEN CraScan(Tail(c), U32Shl4Add(f, HexVal(Head(c))), U32Shl4Add(m, 15))
    ELSE IF Head(c) = "X" \/ Head(c) = "x"
    THEN CraScan(Tail(c), U32Shl4Add(f, 0), U32Shl4Add(m, 0))
    ELSE CraScan(Tail(c), f, m)

\* ATSP / ATTP, c after the command word
ProtocolCmd(g, c0, try) ==
    LET c1 == SkipSpaces(c0)
        auto == CharAt(c1, 0) = "A"
        protocol == CharAt(IF auto THEN Drop(c1, 1) ELSE c1, 0)
    IN  Ret([g EXCEPT !.elm_protocol = protocol,
                      !.elm_protocol_auto = auto \/ (try /\ protocol = "0")],
            elm_write_ok(g))

\* a warm start that would reply like ATD (for comparison)
AtWSReplyOk(g) ==
    RetNote(elm_reset(g), elm_write_ok(elm_reset(g)), "reset", U32(0), U32(0))

\* the reset commands: ATD, ATWS and ATZ
AtD(g) ==
    RetNote(elm_reset(g), elm_write_ok(elm_reset(g)), "reset", U32(0), U32(0))
AtWS(g) ==
    RetNote(elm_reset(g), elm_writeln(elm_reset(g), <<ELM_VERSION_STRING>>),
            "reset", U32(0), U32(0))
AtZ(g) ==
    RetNote(elm_reset(g), elm_writeln(elm_reset(g), <<ELM_VERSION_STRING>>),
            "reset", U32(0), U32(0))

\* the AT commands, c after "AT"
AtCmd(g, c) ==
    IF StrCaseEq(c, <<"@", "1">>)
    THEN Ret(g, elm_writeln(g, <<ELM_DEVICE_STRING>>))
    ELSE IF StrCaseEq(c, <<"@", "2">>)
    THEN Ret(g, elm_writeln(g, PrintStr(g.elm_device_identifier)))
    ELSE IF StrCaseEq(c, <<"@", "3">>)
    THEN Ret([g EXCEPT !.elm_device_identifier = StrPtr(SkipSpaces(Drop(c, 2)))],
             elm_write_ok(g))
    ELSE IF StrCaseEq(c, <<"A", "L">>)
    THEN Ret([g EXCEPT !.elm_long_message = TRUE], elm_write_ok(g))
    ELSE IF StrNCaseEq(c, <<"A", "T">>, 2) /\ CharAt(c, 2) \in {"0", "1", "2"}
    THEN Ret([g EXCEPT !.elm_adaptive = HexVal(CharAt(c, 2))], elm_write_ok(g))
    ELSE IF StrNCaseEq(c, <<"C", "A", "F">>, 3) /\ Is01(c, 3)
    THEN Ret([g EXCEPT !.elm_can_auto_format = CharAt(c, 3) # "0"], elm_write_ok(g))
    ELSE IF StrNCaseEq(c, <<"C", "F", "C">>, 3) /\ Is01(c, 3)
    THEN Ret([g EXCEPT !.elm_can_flow_control = CharAt(c, 3) # "0"], elm_write_ok(g))
    ELSE IF StrNCaseEq(c, <<"C", "F">>, 2)
    THEN Ret([g EXCEPT !.elm_filter.pattern = elm_read_hexa(Drop(c, 2)).h],
             elm_write_ok(g))
    ELSE IF StrNCaseEq(c, <<"C", "M">>, 2)
    THEN Ret([g EXCEPT !.elm_filter.mask = elm_read_hexa(Drop(c, 2)).h],
             elm_write_ok(g))
    ELSE IF StrCaseEq(c, <<"C", "R", "A">>)
    THEN Ret([g EXCEPT !.elm_filter = Rule(U32(0), U32(0))], elm_write_ok(g))
    ELSE IF StrNCaseEq(c, <<"C", "R", "A">>, 3)
    THEN Ret([g EXCEPT !.elm_filter = CraScan(Drop(c, 3), U32(0), <<65535, 65535>>)],
             elm_write_ok(g))
    ELSE IF StrCaseEq(c, <<"C", "S">>)
    THEN Ret(g, elm_writeln(g, <<"STARTED">>))
    ELSE IF StrNCaseEq(c, <<"C", "S", "M">>, 3) /\ Is01(c, 3)
    THEN Ret([g EXCEPT !.elm_can_silent_mode = CharAt(c, 3) # "0"], elm_write_ok(g))
    ELSE IF StrCaseEq(c, <<"D">>)
    THEN AtD(g)
    ELSE IF StrNCaseEq(c, <<"D">>, 1) /\ Is01(c, 1)
    THEN Ret([g EXCEPT !.elm_dlc = CharAt(c, 1) # "0"], elm_write_ok(g))
    ELSE IF StrCaseEq(c, <<"D", "P">>)
    THEN Ret(g, (IF g.elm_protocol_auto THEN <<"Auto, ">> ELSE <<>>)
                \o <<elm_get_protocol(g.elm_protocol)[2], ELM_NEWLINE(g)>>)
    ELSE IF StrCaseEq(c, <<"D", "P", "N">>)
    THEN Ret(g, (IF g.elm_protocol_auto THEN <<"A">> ELSE <<>>)
                \o <<elm_get_protocol(g.elm_protocol)[1], ELM_NEWLINE(g)>>)
    ELSE IF StrNCaseEq(c, <<"E">>, 1) /\ Is01(c, 1)
    THEN Ret([g EXCEPT !.elm_echo = CharAt(c, 1) # "0"], elm_write_ok(g))
    ELSE IF StrNCaseEq(c, <<"H">>, 1) /\ Is01(c, 1)
    THEN Ret([g EXCEPT !.elm_headers = CharAt(c, 1) # "0"], elm_write_ok(g))
    ELSE IF StrCaseEq(c, <<"I">>)
    THEN Ret(g, elm_writeln(g, <<ELM_VERSION_STRING>>))
    ELSE IF StrNCaseEq(c, <<"L">>, 1) /\ Is01(c, 1)
    THEN Ret([g EXCEPT !.elm_linefeed = CharAt(c, 1) # "0"],
             elm_write_ok([g EXCEPT !.elm_linefeed = CharAt(c, 1) # "0"]))
    ELSE IF StrNCaseEq(c, <<"M">>, 1) /\ Is01(c, 1)
    THEN Ret([g EXCEPT !.elm_memory = CharAt(c, 1) # "0"], elm_write_ok(g))
    ELSE IF StrCaseEq(c, <<"M", "A">>)
    THEN elm_monitor_start(g)
    ELSE IF StrNCaseEq(c, <<"M", "R">>, 2)
    THEN LET h == elm_read_hexa(Drop(c, 2)).h
             f == U32Plus(U32And(g.elm_filter.pattern, <<65535, 65280>>),
                          U32And(h, <<0, 255>>))
             m == U32Or(g.elm_filter.mask, <<0, 255>>)
         IN  elm_monitor_start([g EXCEPT !.elm_filter = Rule(f, m)])
    ELSE IF StrNCaseEq(c, <<"M", "T">>, 2)
    THEN LET h == elm_read_hexa(Drop(c, 2)).h
             f == U32Plus(U32And(g.elm_filter.pattern, <<0, 255>>),
                          U32And(h, <<65535, 65280>>))
             m == U32Or(g.elm_filter.mask, <<65535, 65280>>)
         IN  elm_monitor_start([g EXCEPT !.elm_filter = Rule(f, m)])
    ELSE IF StrNCaseEq(c, <<"R">>, 1) /\ Is01(c, 1)
    THEN Ret(g, elm_write_ok(g))
    ELSE IF StrNCaseEq(c, <<"S">>, 1) /\ Is01(c, 1)
    THEN Ret([g EXCEPT !.elm_spaces = CharAt(c, 1) # "0"], elm_write_ok(g))
    ELSE IF StrNCaseEq(c, <<"S", "P">>, 2)
    THEN ProtocolCmd(g, Drop(c, 2), FALSE)
    ELSE IF StrNCaseEq(c, <<"S", "T">>, 2)
    THEN Ret([g EXCEPT !.elm_timeout = elm_read_hexa(Drop(c, 2)).h], elm_write_ok(g))
    ELSE IF StrNCaseEq(c, <<"T", "P">>, 2)
    THEN ProtocolCmd(g, Drop(c, 2), TRUE)
    ELSE IF StrCaseEq(c, <<"W", "S">>)
    THEN AtWS(g)
    ELSE IF StrCaseEq(c, <<"Z">>)
    THEN AtZ(g)
    ELSE ElmErr(g)

\* WIFI ..., c after "WIFI" and spaces; wifi_ok is what wifi_sta, wifi_ap or
\* wifi_stop returns
WifiCmd(g, c, wifi_ok) ==
    LET cleared == [g EXCEPT !.elm_previous_cmd = <<>>]
    IN  IF c = <<>>
        THEN Ret(g, <<"\r\n", "wifi_status()">>)
        ELSE IF StrNCaseEq(c, <<"S", "T", "A">>, 3)
        THEN IF SkipSpaces(Drop(c, 3)) = <<>>
             THEN Ret(g, <<>>)
             ELSE Ret(cleared, elm_write_ok_error(g, wifi_ok))
        ELSE IF StrNCaseEq(c, <<"A", "P">>, 2)
        THEN IF SkipSpaces(Drop(c, 2)) = <<>>
             THEN Ret(g, <<>>)
             ELSE Ret(cleared, elm_write_ok_error(g, wifi_ok))
        ELSE IF StrNCaseEq(c, <<"S", "T", "O", "P">>, 4)
        THEN Ret(cleared, elm_write_ok_error(g, wifi_ok))
        ELSE IF StrNCaseEq(c, <<"S", "C", "A", "N">>, 4)
        THEN Ret(g, <<"\r\n", "wifi_scan()">>)
        ELSE ElmErr(g)

\* a dispatcher that would take an empty line as it is (for comparison)
CmdAsTyped(g0, line) == line

\* Previous command: an empty line stands for elm_previous_cmd
CmdOrPrevious(g0, line) == IF line = <<>> THEN g0.elm_previous_cmd ELSE line

\* elm_do_cmd(g, line)
elm_do_cmd(g0, line, wifi_ok) ==
    LET g == IF line = <<>> THEN g0 ELSE [g0 EXCEPT !.elm_previous_cmd = line]
        cmd == SkipSpaces(CmdOrPrevious(g0, line))
    IN  IF StrCaseEq(cmd, <<"R", "E", "B", "O", "O", "T">>) \/ StrCaseEq(cmd, <<"R", "E", "S", "T", "A", "R", "T">>)
        THEN RetFx(g, <<>>, "reboot")
        ELSE IF StrCaseEq(cmd, <<"P", "S">>)
        THEN Ret(g, <<"\r\n", "cmd_ps()">>)
        ELSE IF StrCaseEq(cmd, <<"F", "R", "E", "E">>)
        THEN Ret(g, <<"\r\n", "cmd_free()">>)
        ELSE IF StrNCaseEq(cmd, <<"E", "L", "O", "G">>, 4)
        THEN Ret(g, <<>>)
        ELSE IF StrNCaseEq(cmd, <<"S", "I", "M", "U">>, 4)
        THEN IF StrNCaseEq(SkipSpaces(Drop(cmd, 4)), <<"S", "T", "A", "R", "T">>, 3)
             THEN RetFx(g, <<>>, "simu_start")
             ELSE IF StrNCaseEq(SkipSpaces(Drop(cmd, 4)), <<"S", "T", "O", "P">>, 3)
             THEN RetFx(g, <<>>, "simu_stop")
             ELSE ElmErr(g)
        ELSE IF StrNCaseEq(cmd, <<"W", "I", "F", "I">>, 4)
        THEN WifiCmd(g, SkipSpaces(Drop(cmd, 4)), wifi_ok)
        ELSE IF StrNCaseEq(cmd, <<"O", "T", "A">>, 3)
        THEN Ret(g, <<"ota()">>)
        ELSE IF StrNCaseEq(cmd, <<"S", "T">>, 2)
        THEN StCmd(g, Drop(cmd, 2))
        ELSE IF StrNCaseEq(cmd, <<"A", "T">>, 2)
        THEN AtCmd(g, Drop(cmd, 2))
        ELSE ElmErr(g)

\* the lines a terminal sends in the model
Lines ==
    { <<"A", "T", "Z">>, <<"a", "t", "w", "s">>, <<"A", "T", "D">>, <<>>, <<"A", "T", "E", "0">>, <<"A", "T", "L", "0">>, <<"A", "T", "H", "0">>, <<"A", "T", "S", "T", "3", "2">>, <<"A", "T", "S", "P", "6">>,
      <<"A", "T", "@", "3">>, <<"A", "T", "C", "R", "A", "1", "3", "2">>, <<"S", "T", "F", "A", "P", " ", "1", "3", "2", ",", "7", "F", "F">>, <<"S", "T", "F", "A", "B", " ", "2", "5", "7", ",", "7", "F", "F">>, <<"S", "T", "F", "A", "B", " ", "1", "0", "0", ",", "0">>,
      <<"S", "T", "F", "A", "C">>, <<"S", "T", "M">>, <<"W", "I", "F", "I", " ", "S", "T", "O", "P">>, <<"X", "Y", "Z">>,
      <<"S", "T", "F", "A", "P", " ", "1", "3", "2">> }

\* the frames a monitor task finds in its queue (data_length_code 0), with
\* the identifier as "%03X" prints it
MonFrames ==
    { [identifier |-> U32(0), text |-> "000"],
      [identifier |-> U32(306), text |-> "132"],
      [identifier |-> U32(599), text |-> "257"] }

\* the lines the terminal of the monitor scenario sends: ATST with 0x418938
\* ms and with 0x32 ms, the monitor start, a receive address
MonLines ==
    { <<"A", "T", "S", "T", "4", "1", "8", "9", "3", "8">>,
      <<"A", "T", "S", "T", "3", "2">>,
      <<"S", "T", "M">>,
      <<"A", "T", "C", "R", "A", "1", "3", "2">> }

\* the lines the terminals of the two-session scenario send: headers off and
\* on, echo off, a pass rule, a reset, the simulation, a restart
SesLines ==
    { <<"A", "T", "H", "0">>, <<"A", "T", "H", "1">>, <<"A", "T", "E", "0">>,
      <<"S", "T", "F", "A", "P", " ", "1", "3", "2", ",", "7", "F", "F">>,
      <<"A", "T", "Z">>, <<"S", "I", "M", "U", " ", "S", "T", "A", "R", "T">>,
      <<"R", "E", "B", "O", "O", "T">> }

\* the scenarios with the timed monitor task and its queue
MonScenario == scn \in {"monitor", "stream"}

\* the lines and the frames of the stream scenario: a pass rule, a block
\* rule, headers off, the monitor start; identifiers 0x7E8 and 0x7E9
STFPA_7E8 == <<"S", "T", "F", "P", "A", "7", "E", "8", ",", "7", "F", "F">>
StrLines ==
    { STFPA_7E8,
      <<"S", "T", "F", "B", "A", "7", "E", "9", ",", "7", "F", "F">>,
      <<"A", "T", "H", "0">>,
      <<"S", "T", "M", "A">> }
StrFrames ==
    { [identifier |-> U32(2024), text |-> "7E8"],
      [identifier |-> U32(2025), text |-> "7E9"] }
QueueFrames == IF scn = "stream" THEN StrFrames ELSE MonFrames

\* the filter commands of the table scenario
STFPA_132 == <<"S", "T", "F", "P", "A", "1", "3", "2", ",", "7", "F", "F">>
STFBA_257 == <<"S", "T", "F", "B", "A", "2", "5", "7", ",", "7", "F", "F">>
STFPA_100_0 == <<"S", "T", "F", "P", "A", "1", "0", "0", ",", "0">>
STFBA_100_0 == <<"S", "T", "F", "B", "A", "1", "0", "0", ",", "0">>

TabLines ==
    { STFPA_132, STFBA_257, STFPA_100_0, STFBA_100_0,
      <<"S", "T", "F", "P", "C">>, <<"S", "T", "F", "B", "C">>,
      <<"S", "T", "F", "A", "C">>, <<"S", "T", "F", "P", "A">>,
      <<"A", "T", "Z">> }

\* how many rules each table holds when the table scenario starts
TabFill == {0, ELM_ST_FILTER_LEN - 1, ELM_ST_FILTER_LEN}

\* the block after np acknowledged STFPA132,7FF and then nb acknowledged
\* STFBA257,7FF: elm_filter_add has filled the first np and nb slots
Filled(np, nb) ==
    [elm_reset(ZeroGlobals) EXCEPT
        !.pass_filter = [i \in 1 .. np |-> Rule(U32(306), U32(2047))],
        !.block_filter = [i \in 1 .. nb |-> Rule(U32(599), U32(2047))],
        !.elm_previous_cmd = IF nb > 0 THEN STFBA_257
                             ELSE IF np > 0 THEN STFPA_132 ELSE <<>>]

\* the lines of the release scenario: the two monitor-all commands
RelLines == { <<"S", "T", "M", "A">>, <<"A", "T", "M", "A">> }

\* the lines of the protocol scenario: protocols 6, A6, C and 0, a
\* protocol character that is in no entry of elm_protocols, no character at
\* all, A alone, the two queries, linefeeds off, headers off and a reset
ProtLines ==
    { <<"A", "T", "S", "P", "6">>, <<"A", "T", "S", "P", "A", "6">>,
      <<"A", "T", "T", "P", "C">>, <<"A", "T", "T", "P", "0">>,
      <<"A", "T", "S", "P", "Z">>, <<"A", "T", "T", "P", "Z">>,
      <<"A", "T", "S", "P">>, <<"A", "T", "S", "P", "A">>,
      <<"A", "T", "D", "P">>, <<"A", "T", "D", "P", "N">>,
      <<"A", "T", "L", "0">>, <<"A", "T", "H", "0">>, <<"A", "T", "Z">> }

\* the lines of the identifier scenario: the set command with no argument,
\* with the argument ABC after a space and right after the command word, the
\* get command, the device description, echo off, linefeeds off, headers
\* off and a reset
IdLines ==
    { <<"A", "T", "@", "3">>,
      <<"A", "T", "@", "3", " ", "A", "B", "C">>,
      <<"A", "T", "@", "3", "A", "B", "C">>,
      <<"A", "T", "@", "2">>,
      <<"A", "T", "@", "1">>,
      <<"A", "T", "E", "0">>, <<"A", "T", "L", "0">>, <<"A", "T", "H", "0">>,
      <<"A", "T", "Z">> }

\* the nine toggle commands: the letters after AT and the field each one sets
Toggles ==
    { [name |-> <<"E">>, field |-> "elm_echo"],
      [name |-> <<"L">>, field |-> "elm_linefeed"],
      [name |-> <<"H">>, field |-> "elm_headers"],
      [name |-> <<"S">>, field |-> "elm_spaces"],
      [name |-> <<"M">>, field |-> "elm_memory"],
      [name |-> <<"D">>, field |-> "elm_dlc"],
      [name |-> <<"C", "A", "F">>, field |-> "elm_can_auto_format"],
      [name |-> <<"C", "F", "C">>, field |-> "elm_can_flow_control"],
      [name |-> <<"C", "S", "M">>, field |-> "elm_can_silent_mode"] }

\* the line AT<name><digit>, and the line AT<name> with no digit
ToggleLine(t, d) == <<"A", "T">> \o t.name \o <<d>>
BareLine(t) == <<"A", "T">> \o t.name

\* the lines of the toggle scenario: every toggle with 0, with 1 and with no
\* digit, and a pass rule and a block rule
TogLines ==
    { ToggleLine(t, d) : t \in Toggles, d \in {"0", "1"} }
    \cup { BareLine(t) : t \in Toggles }
    \cup { <<"S", "T", "F", "A", "P", " ", "1", "3", "2", ",", "7", "F", "F">>,
           <<"S", "T", "F", "A", "B", " ", "2", "5", "7", ",", "7", "F", "F">> }

SessionLines ==
    IF scn = "monitor" THEN MonLines
    ELSE IF scn = "table" THEN TabLines
    ELSE IF scn = "stream" THEN StrLines
    ELSE IF scn = "sessions" THEN SesLines
    ELSE IF scn = "release" THEN RelLines
    ELSE IF scn = "protocol" THEN ProtLines
    ELSE IF scn = "identifier" THEN IdLines
    ELSE IF scn = "toggle" THEN TogLines
    ELSE Lines

\* the frames the bus brings while the terminal monitors
FrameLimit == IF scn = "monitor" THEN 1 ELSE IF scn = "stream" THEN 2 ELSE 0

\* the lines the terminal sends in the scenario
LineLimit == IF scn \in {"monitor", "release"} THEN 2 ELSE MaxLines

\* elm_do() up to its first fgetc: the block is zeroed, reset, a prompt written
ElmStart(g, pass, block) ==
    /\ G = g
    /\ elm_pc = "read"
    /\ reply = <<>>
    /\ tx = <<ELM_PROMPT>>
    /\ disp = [line |-> <<>>, seq |-> 0]
    /\ pass_rules = pass
    /\ block_rules = block
    /\ mon = [created |-> 0, run |-> 0, exit |-> 0, nul |-> 0, intr |-> 0]
    /\ mon_last = [identifier |-> U32(0), pass |-> FALSE, written |-> FALSE,
                   seq |-> 0]
    /\ nLines = 0
    /\ mt = [pc |-> "none", last_us |-> U32(0), pass_us |-> T64(0),
             nodata |-> 0, seq |-> 0, ticks |-> 0, frames |-> 0]
    /\ mq = <<>>
    /\ kb = [rest |-> <<>>, line |-> <<>>, key |-> "", out |-> <<>>, seq |-> 0]
    /\ heap = [a \in Blocks |-> NULL]
    /\ ses = [t \in Transports |->
                [pc |-> "none", g |-> 0, line |-> <<>>, out |-> <<>>, seq |-> 0]]

    /\ rt = [t \in RegTasks |->
                [pc |-> "idle", slot |-> 0, buf |-> NULL, op |-> "none", ret |-> NULL,
                 seq |-> 0]]
    /\ ms = [deq |-> <<>>, out |-> <<>>]

ElmInit == ElmStart(elm_reset(ZeroGlobals), <<>>, <<>>)

\* the acknowledged rules after a command with this note
NotedRules(rules, note, add, clear) ==
    IF note.op = add THEN Append(rules, Rule(note.pattern, note.mask))
    ELSE IF note.op \in {clear, "all_clear", "reset"} THEN <<>>
    ELSE rules

\* what wifi_sta, wifi_ap or wifi_stop may return, when the line calls one
WifiResults(g, line) ==
    IF StrNCaseEq(SkipSpaces(IF line = <<>> THEN g.elm_previous_cmd ELSE line),
                  <<"W", "I", "F", "I">>, 4)
    THEN BOOLEAN
    ELSE {TRUE}

\* elm_do, lines 1595-1607: the two newlines, elm_do_cmd for the line, the
\* prompt unless the monitor was started; echoed is what the keys of the line
\* wrote before
Dispatch(line, echoed) ==
    /\ \E wifi_ok \in WifiResults(G, line) :
        \E r \in {elm_do_cmd(G, line, wifi_ok)} :
            /\ G' = r.g
            /\ reply' = r.out
            /\ tx' = echoed
                     \o elm_newline(G) \o elm_newline(G) \o r.out
                     \o (IF r.g.elm_monitor THEN <<>> ELSE <<ELM_PROMPT>>)
            /\ disp' = [line |-> line, seq |-> 1 - disp.seq]
            /\ pass_rules' = NotedRules(pass_rules, r.note, "pass_add", "pass_clear")
            /\ block_rules' = NotedRules(block_rules, r.note, "block_add", "block_clear")
            /\ mon' = IF r.fx = "monitor"
                      THEN [mon EXCEPT !.created = @ + 1, !.intr = 0]
                      ELSE mon
            /\ elm_pc' = IF r.fx = "reboot" THEN "rebooted" ELSE "read"
            /\ can_simu_task_run' =
                    IF r.fx = "simu_start" THEN TRUE
                    ELSE IF r.fx = "simu_stop" THEN FALSE
                    ELSE can_simu_task_run
            /\ simu_pc' =
                    IF r.fx = "simu_start" /\ ~can_simu_task_run /\ simu_pc = "none"
                    THEN "delay" ELSE simu_pc
    /\ nLines' = nLines + 1
    /\ UNCHANGED <<scn, now, can_rx_ringbuf, can_id_last_us, can_task_pc, rx,
                   ingest, raised, nRx, mon_last>>

\* elm_do: the characters of a line arrive, then '\r' (no monitor is active)
elm_do_line ==
    /\ elm_pc = "read"
    /\ ~G.elm_monitor
    /\ nLines < LineLimit
    /\ \E line \in SessionLines :
        Dispatch(line, IF G.elm_echo THEN line ELSE <<>>)
    /\ UNCHANGED notElm

\* the keys the terminal of the typing scenario sends, line by line: the
\* echo commands, a reset, a line corrected with backspace and with keys
\* that are skipped, a backspace on an empty line, a line of 128 characters
KeyScripts ==
    { <<"A", "T", "E", "0", "\r">>,
      <<"A", "T", "E", "1", "\r">>,
      <<"A", "T", "Z", "\r">>,
      <<"A", "BS", "\n", "\t", "A", "T", "H", "DEL", "H", "1", "\r">>,
      <<"BS", "X", "\r">>,
      [i \in 1 .. ELM_BUFFER_LEN + 1 |->
          IF i <= ELM_BUFFER_LEN THEN "A" ELSE "\r"] }

\* elm_do, lines 1585-1621: one key other than '\r', with the monitor off.
\* Backspace and delete take the last character back and write "\b \b";
\* '\n' and the other control characters are skipped; a printable character
\* is stored while there is room, and echoed if elm_echo is set
elm_do_key ==
    /\ scn = "typing"
    /\ elm_pc = "read"
    /\ ~G.elm_monitor
    /\ kb.rest # <<>> \/ nLines < LineLimit
    /\ \E script \in (IF kb.rest = <<>> THEN KeyScripts ELSE {kb.rest}) :
        \E c \in {Head(script)} :
          /\ c # "\r"
          /\ \E r \in {IF c \in {"BS", "DEL"}
                        THEN IF kb.line # <<>>
                             THEN [line |-> SubSeq(kb.line, 1, Len(kb.line) - 1),
                                   out |-> <<"BS", " ", "BS">>]
                             ELSE [line |-> kb.line, out |-> <<>>]
                        ELSE IF c \in {"\n", "\t"}
                        THEN [line |-> kb.line, out |-> <<>>]
                        ELSE IF Len(kb.line) >= ELM_BUFFER_LEN - 1
                        THEN [line |-> kb.line, out |-> <<>>]
                        ELSE [line |-> Append(kb.line, c),
                              out |-> IF G.elm_echo THEN <<c>> ELSE <<>>]} :
                /\ kb' = [rest |-> Tail(script), line |-> r.line, key |-> c,
                          out |-> r.out, seq |-> 1 - kb.seq]
                /\ tx' = IF r.out = <<>> THEN tx ELSE r.out
    /\ UNCHANGED <<G, elm_pc, reply, disp, pass_rules, block_rules, mon, mon_last, nLines>>
    /\ UNCHANGED <<scn, now, canVars, btVars, mt, mq, sesVars, extVars>>

\* elm_do, lines 1595-1607: '\r' hands the stored line to elm_do_cmd
elm_do_cr ==
    /\ scn = "typing"
    /\ elm_pc = "read"
    /\ ~G.elm_monitor
    /\ kb.rest # <<>>
    /\ Head(kb.rest) = "\r"
    /\ Dispatch(kb.line, <<>>)
    /\ kb' = [kb EXCEPT !.rest = Tail(@), !.line = <<>>]
    /\ UNCHANGED <<btVars, mt, mq, sesVars, extVars>>

\* a terminal that types its lines key by key
KeyNext ==
    \/ elm_do_key
    \/ elm_do_cr

\* elm_do: a byte arrives while the monitor is active; elm_monitor_stop clears
\* the flag and waits for the task
elm_do_stop ==
    /\ elm_pc = "read"
    /\ G.elm_monitor
    /\ G' = [G EXCEPT !.elm_monitor = FALSE]
    /\ elm_pc' = "stop_wait"
    /\ mon' = [mon EXCEPT !.nul = 0, !.intr = 1]
    /\ UNCHANGED <<reply, tx, disp, pass_rules, block_rules, mon_last, nLines>>
    /\ UNCHANGED <<scn, now, canVars>>
    /\ UNCHANGED notElm

\* elm_monitor_stop: the task is not running (any more), newline and prompt
elm_do_stop_done ==
    /\ elm_pc = "stop_wait"
    /\ ~G.elm_monitor_task_run
    /\ tx' = <<ELM_NEWLINE(G), ELM_PROMPT>>
    /\ elm_pc' = "read"
    /\ UNCHANGED <<G, reply, disp, pass_rules, block_rules, mon, mon_last, nLines>>
    /\ UNCHANGED <<scn, now, canVars>>
    /\ UNCHANGED notElm

\* elm_do: EOF or ctrl-D ends the loop; elm_monitor_stop, then the block is freed
elm_do_eof ==
    /\ elm_pc = "read"
    /\ IF G.elm_monitor
       THEN /\ G' = [G EXCEPT !.elm_monitor = FALSE]
            /\ elm_pc' = "end_wait"
       ELSE /\ elm_pc' = "ended"
            /\ UNCHANGED G
    /\ mon' = [mon EXCEPT !.nul = 0]
    /\ UNCHANGED <<reply, tx, disp, pass_rules, block_rules, mon_last, nLines>>
    /\ UNCHANGED <<scn, now, canVars>>
    /\ UNCHANGED notElm

elm_do_end_done ==
    /\ elm_pc = "end_wait"
    /\ ~G.elm_monitor_task_run
    /\ tx' = <<ELM_NEWLINE(G), ELM_PROMPT>>
    /\ elm_pc' = "ended"
    /\ UNCHANGED <<G, reply, disp, pass_rules, block_rules, mon, mon_last, nLines>>
    /\ UNCHANGED <<scn, now, canVars>>
    /\ UNCHANGED notElm

\* elm_do: fgetc gives a NUL byte while the monitor is active; the byte is
\* skipped before anything else
elm_do_nul ==
    /\ elm_pc = "read"
    /\ G.elm_monitor
    /\ mon.nul = 0
    /\ mon' = [mon EXCEPT !.nul = 1]
    /\ UNCHANGED <<G, elm_pc, reply, tx, disp, pass_rules, block_rules, mon_last, nLines>>
    /\ UNCHANGED <<scn, now, canVars>>
    /\ UNCHANGED notElm

\* elm_monitor_task up to its first wait in xRingbufferReceive: the run flag
\* is set, the queue is created (or can_ringbuf_new finds no free slot), the
\* loop test is made
mon_task_start ==
    /\ elm_pc # "rebooted"
    /\ mon.created > 0
    /\ G' = [G EXCEPT !.elm_monitor_task_run = TRUE]
    /\ \E buf_ok \in BOOLEAN :
        mon' = IF buf_ok /\ G.elm_monitor
               THEN [mon EXCEPT !.created = @ - 1, !.run = @ + 1]
               ELSE [mon EXCEPT !.created = @ - 1, !.exit = @ + 1]
    /\ UNCHANGED <<elm_pc, reply, tx, disp, pass_rules, block_rules, mon_last, nLines>>
    /\ UNCHANGED <<scn, now, canVars>>
    /\ UNCHANGED notElm

\* _elm_write_can for a frame with no data bytes
ElmWriteCan(g, frame) ==
    (IF g.elm_headers
     THEN <<frame.text>> \o (IF g.elm_spaces THEN <<" ">> ELSE <<>>)
     ELSE <<>>)
    \o (IF g.elm_dlc
        THEN <<"00">> \o (IF g.elm_spaces THEN <<" ">> ELSE <<>>)
        ELSE <<>>)
    \o <<ELM_NEWLINE(g)>>

\* the task waits in xRingbufferReceive and a frame arrives: it is tested
\* and, if it passes, written; a failed write ends the loop, and so does the
\* loop test that follows when elm_monitor is clear
mon_task_rx ==
    /\ elm_pc # "rebooted"
    /\ mon.run > 0
    /\ \E frame \in MonFrames, written \in BOOLEAN :
        LET pass == elm_filter_test(G, frame.identifier)
        IN  /\ mon_last' = [identifier |-> frame.identifier, pass |-> pass,
                            written |-> pass /\ written,
                            seq |-> 1 - mon_last.seq]
            /\ tx' = IF pass THEN ElmWriteCan(G, frame) ELSE tx
            /\ mon' = IF (pass /\ ~written) \/ ~G.elm_monitor
                      THEN [mon EXCEPT !.run = @ - 1, !.exit = @ + 1]
                      ELSE mon
    /\ UNCHANGED <<G, elm_pc, reply, disp, pass_rules, block_rules, nLines>>
    /\ UNCHANGED <<scn, now, canVars>>
    /\ UNCHANGED notElm

\* the wait in xRingbufferReceive ends and elm_timeout has elapsed: NO DATA
mon_task_nodata ==
    /\ elm_pc # "rebooted"
    /\ mon.run > 0
    /\ tx' = <<ELM_NODATA_PROMPT, ELM_NEWLINE(G)>>
    /\ mon' = [mon EXCEPT !.run = @ - 1, !.exit = @ + 1]
    /\ UNCHANGED <<G, elm_pc, reply, disp, pass_rules, block_rules, mon_last, nLines>>
    /\ UNCHANGED <<scn, now, canVars>>
    /\ UNCHANGED notElm

\* the wait ends with no frame, and the loop test fails: while (G.elm_monitor)
mon_task_leave ==
    /\ elm_pc # "rebooted"
    /\ mon.run > 0
    /\ ~G.elm_monitor
    /\ mon' = [mon EXCEPT !.run = @ - 1, !.exit = @ + 1]
    /\ UNCHANGED <<G, elm_pc, reply, tx, disp, pass_rules, block_rules, mon_last, nLines>>
    /\ UNCHANGED <<scn, now, canVars>>
    /\ UNCHANGED notElm

\* _exit: the queue is deleted, both flags are cleared, the task ends
mon_task_exit ==
    /\ elm_pc # "rebooted"
    /\ mon.exit > 0
    /\ G' = [G EXCEPT !.elm_monitor = FALSE, !.elm_monitor_task_run = FALSE]
    /\ mon' = [mon EXCEPT !.exit = @ - 1, !.nul = 0]
    /\ UNCHANGED <<elm_pc, reply, tx, disp, pass_rules, block_rules, mon_last, nLines>>
    /\ UNCHANGED <<scn, now, canVars>>
    /\ UNCHANGED notElm

\* n * 1000 for a uint32_t n, in 64 bits
Times1000(n) ==
    LET lo == n[2] * 1000
        hi == n[1] * 1000 + (lo \div Limb)
    IN  <<hi \div Limb, hi % Limb, lo % Limb>>

\* line 1497: G.elm_timeout * 1000, a uint32_t product
TimeoutUsWide(g) == Times1000(g.elm_timeout)

TimeoutUs(g) == Widen64(Trunc32(Times1000(g.elm_timeout)))

\* line 1497: (us - last_us) >= G.elm_timeout * 1000, all uint32_t
MonTimeout(g, us, last_us) ==
    U32Geq(U32Sub(us, last_us), Trunc32(TimeoutUs(g)))

\* the wait of xRingbufferReceive in the monitor loop: 100 ms
RecvWait == T64(100000)

\* one step of the clock in the monitor scenario: 100 ms
MonDelta == T64(100000)

\* esp_timer_get_time() moves on while a frame waits in the queue and the
\* monitor task does not run
mon_time_passes ==
    /\ scn = "monitor"
    /\ mt.ticks < MaxTicks
    /\ mq # <<>>
    /\ now' = T64Add(now, MonDelta)
    /\ mt' = [mt EXCEPT !.ticks = @ + 1]
    /\ UNCHANGED <<scn, canVars, elmVars, btVars, mq, kb, sesVars, extVars>>

\* a frame is sent to the monitor task's queue, stamped with the time
mon_bus_frame ==
    /\ MonScenario
    /\ mt.pc = "loop"
    /\ mt.frames < FrameLimit
    /\ \E frame \in QueueFrames :
        mq' = Append(mq, [frame |-> frame, timestamp |-> now])
    /\ mt' = [mt EXCEPT !.frames = @ + 1]
    /\ UNCHANGED <<scn, now, canVars, elmVars, btVars, kb, sesVars, extVars>>

\* elm_monitor_task, lines 1458-1474: the run flag, the queue, last_us
elm_monitor_task_begin ==
    /\ MonScenario
    /\ mon.created > 0
    /\ mt.pc = "none"
    /\ G' = [G EXCEPT !.elm_monitor_task_run = TRUE]
    /\ mon' = [mon EXCEPT !.created = @ - 1, !.run = @ + 1]
    /\ mt' = [mt EXCEPT !.pc = "loop", !.last_us = Trunc32(now),
                        !.pass_us = now]
    /\ mq' = <<>>
    /\ ms' = [deq |-> <<>>, out |-> <<>>]
    /\ UNCHANGED <<elm_pc, reply, tx, disp, pass_rules, block_rules, mon_last, nLines>>
    /\ UNCHANGED <<scn, now, canVars, btVars, kb, sesVars, rt, simu, fo>>

\* elm_monitor_task, lines 1476-1513: one turn of the loop.  The receive
\* gives the oldest frame, or nothing once 100 ms have passed; a frame that
\* passes is written and its timestamp kept; then the timeout test
elm_monitor_task_turn ==
    /\ MonScenario
    /\ mt.pc = "loop"
    /\ IF ~G.elm_monitor
       THEN /\ mt' = [mt EXCEPT !.pc = "exit"]
            /\ UNCHANGED <<now, mq, tx, mon_last, ms>>
       ELSE \E written \in BOOLEAN :
            LET got == mq # <<>>
                us64 == IF got THEN now ELSE T64Add(now, RecvWait)
                pass == got /\ elm_filter_test(G, Head(mq).frame.identifier)
                last_us == IF pass THEN Trunc32(Head(mq).timestamp)
                           ELSE mt.last_us
                failed == pass /\ ~written
                nodata == ~failed /\ MonTimeout(G, Trunc32(us64), last_us)
            IN  /\ pass \/ written
                /\ now' = us64
                /\ mq' = IF got THEN Tail(mq) ELSE mq
                /\ mon_last' = IF got
                               THEN [identifier |-> Head(mq).frame.identifier,
                                     pass |-> pass, written |-> pass /\ written,
                                     seq |-> 1 - mon_last.seq]
                               ELSE mon_last
                /\ ms' = IF got
                         THEN [deq |-> Append(ms.deq, Head(mq).frame),
                               out |-> IF pass
                                       THEN Append(ms.out, ElmWriteCan(G, Head(mq).frame))
                                       ELSE ms.out]
                         ELSE ms
                /\ tx' = (IF pass THEN ElmWriteCan(G, Head(mq).frame) ELSE <<>>)
                         \o (IF nodata
                             THEN <<ELM_NODATA_PROMPT, ELM_NEWLINE(G)>>
                             ELSE <<>>)
                /\ mt' = [mt EXCEPT
                             !.pc = IF failed \/ nodata THEN "exit" ELSE "loop",
                             !.last_us = last_us,
                             !.pass_us = IF pass THEN Head(mq).timestamp ELSE @,
                             !.nodata = IF nodata THEN 1 ELSE 0,
                             !.seq = 1 - @]
    /\ UNCHANGED <<G, elm_pc, reply, disp, pass_rules, block_rules, mon, nLines>>
    /\ UNCHANGED <<scn, canVars, btVars, kb, sesVars, rt, simu, fo>>

\* elm_monitor_task, lines 1515-1520: the queue is deleted, both flags are
\* cleared, the task ends
elm_monitor_task_end ==
    /\ MonScenario
    /\ mt.pc = "exit"
    /\ G' = [G EXCEPT !.elm_monitor = FALSE, !.elm_monitor_task_run = FALSE]
    /\ mon' = [mon EXCEPT !.run = @ - 1, !.nul = 0]
    /\ mt' = [mt EXCEPT !.pc = "none", !.nodata = 0]
    /\ mq' = <<>>
    /\ UNCHANGED <<elm_pc, reply, tx, disp, pass_rules, block_rules, mon_last, nLines>>
    /\ UNCHANGED <<scn, now, canVars, btVars, kb, sesVars, extVars>>

\* a terminal session that sets the timeout and monitors, with the clock
MonNext ==
    \/ elm_do_line
    \/ mon_time_passes
    \/ mon_bus_frame
    \/ elm_monitor_task_begin
    \/ elm_monitor_task_turn
    \/ elm_monitor_task_end

\* one terminal session and its monitor tasks
ElmNext ==
    \/ elm_do_line
    \/ elm_do_nul
    \/ elm_do_stop
    \/ elm_do_stop_done
    \/ elm_do_eof
    \/ elm_do_end_done
    \/ mon_task_start
    \/ mon_task_rx
    \/ mon_task_nodata
    \/ mon_task_leave
    \/ mon_task_exit

----------------------------------------------------------------------------
(* bt.c *)

\* the scenarios with a Bluetooth connection
BtScenario == scn \in {"transport", "pipeline", "connect", "receive", "uptime"}

\* the scenarios that call the entry points of bt.h with any handle
ConnScenario == scn \in {"connect", "receive"}

\* the bytes the link delivers in the scenario: in the receive scenario more
\* than the receive ring holds
InLimit == IF scn = "receive" THEN MaxBytes + MaxCount ELSE MaxCount

\* the bytes bt_write is asked to send in the scenario
ByteLimit == IF scn = "connect" THEN 1 ELSE MaxBytes

\* one step of the clock in the transport scenario: 6 s
BtDelta == T64(6000000)

\* the handle the stack gives to a connection the server refuses
OtherHandle == 99

Min(a, b) == IF a < b THEN a ELSE b

\* a FreeRTOS byte buffer (RINGBUF_TYPE_BYTEBUF): the bytes waiting, the
\* offset of the read pointer in the storage, and the bytes of the item that
\* was received and is not returned yet
xRingbufferCreate(size) == [size |-> size, buf |-> <<>>, rd |-> 0, held |-> 0]

\* the bytes of a retrieved item stay allocated until the item is returned
xRingbufferGetCurFreeSize(rb) == rb.size - Len(rb.buf) - rb.held

\* a ring that takes the part of a chunk that fits
ByteBufSendPart(rb, bytes) ==
    LET n == Min(Len(bytes), xRingbufferGetCurFreeSize(rb))
    IN  [done |-> n > 0, rb |-> [rb EXCEPT !.buf = @ \o SubSeq(bytes, 1, n)]]

\* xRingbufferSend(rb, bytes, count, 0): all the bytes or none
ByteBufSend(rb, bytes) ==
    IF Len(bytes) <= xRingbufferGetCurFreeSize(rb)
    THEN [done |-> TRUE, rb |-> [rb EXCEPT !.buf = @ \o bytes]]
    ELSE [done |-> FALSE, rb |-> rb]

\* a byte buffer has an item for a receiver when bytes wait and no item is
\* out: it does not allow a second retrieval before the return
ByteBufItemAvailShared(rb) == rb.buf # <<>>

ByteBufItemAvail(rb) == rb.held = 0 /\ rb.buf # <<>>

\* xRingbufferReceiveUpTo(rb, &len, ticks, max): the waiting bytes up to max
\* and up to the end of the storage
xRingbufferReceiveUpTo(rb, max) ==
    LET n == Min(Min(max, Len(rb.buf)), rb.size - rb.rd)
    IN  [data |-> SubSeq(rb.buf, 1, n),
         rb |-> [rb EXCEPT !.buf = SubSeq(@, n + 1, Len(@)),
                           !.rd = (@ + n) % rb.size,
                           !.held = @ + n]]

\* vRingbufferReturnItem: moves the free pointer up to the read pointer
vRingbufferReturnItem(rb) == [rb EXCEPT !.held = 0]

\* the bytes of a bt_write call: the n+1st .. n+count-th byte of the connection
Bytes(n, count) == [i \in 1 .. count |-> n + i]

\* bt_write, line 200: (esp_timer_get_time() - spp_last_us) > 5 * 1000000
\* with the difference formed in 64 bits
StallNever(t, last) == FALSE

StallElapsed(t, last) ==
    /\ T64Geq(t, Widen64(last))
    /\ ~T64Geq(T64(5 * 1000000), T64Sub(t, Widen64(last)))

\* bt_write, lines 211 and 222: what the call returns
BtWriteCount(done, count) == count

BtWriteReturn(done, count) == IF done THEN count ELSE 0

IdleCall ==
    [count |-> 0, room |-> 0, done |-> FALSE, queued |-> 0, returned |-> TRUE,
     ret |-> 0, stall |-> FALSE, drained |-> 0]

BtInit ==
    /\ spp_handle = 0
    /\ spp_tx_buffer = NULL
    /\ spp_writing = FALSE
    /\ spp_last_us = U32(0)
    /\ spp_second_connexion = FALSE
    /\ writer = [pc |-> "none", handle |-> 0, count |-> 0, from |-> "none",
                 chunk |-> <<>>]
    /\ cb = [pc |-> "idle", handle |-> 0, chunk |-> <<>>]
    /\ link = [pending |-> 0, cong |-> FALSE]
    /\ bt_call = IdleCall
    /\ sent = [accepted |-> 0, handed |-> <<>>, chunk |-> <<>>, last |-> NULL]
    /\ nBt = [tick |-> 0, open |-> 0]
    /\ spp_rx_buffer = NULL
    /\ rcv = [accepted |-> <<>>, offered |-> 0, given |-> <<>>, asked |-> 0]
    /\ bt_op = [op |-> "none", mismatch |-> FALSE, ret |-> 0, seq |-> 0]

\* esp_timer_get_time() moves on
bt_time_passes ==
    /\ BtScenario
    /\ nBt.tick < MaxTicks
    /\ now' = T64Add(now, BtDelta)
    /\ nBt' = [nBt EXCEPT !.tick = @ + 1]
    /\ UNCHANGED <<spp_handle, spp_tx_buffer, spp_writing, spp_last_us,
                   spp_second_connexion, writer, cb, link, bt_call, sent>>
    /\ UNCHANGED notTx

\* the test every entry point starts with: handle != spp_handle
HandleMismatch(handle) == handle # spp_handle

\* _close, line 101: the event is that of another connection than the open one
CloseOtherNever(handle) == FALSE

CloseOther(handle) == HandleMismatch(handle)

\* bt_close, lines 246-255: what the call returns
BtCloseReturnOk(handle) == 0

BtCloseReturn(handle) == IF HandleMismatch(handle) THEN -1 ELSE 0

\* the entry point that was called last, whether its handle was that of the
\* open connection, and what it returned (seq alternates per call)
Op(op, handle, ret) ==
    bt_op' = [op |-> op, mismatch |-> (handle # spp_handle), ret |-> ret,
              seq |-> 1 - bt_op.seq]

\* the same for the events _open and _close, in the connect scenario
OpEvent(op, handle) ==
    IF ConnScenario THEN Op(op, handle, 0) ELSE UNCHANGED bt_op

\* ESP_SPP_SRV_OPEN_EVT: _open; both rings are allocated, and bt_open_cb
\* starts the session task on the new handle
esp_spp_cb_srv_open ==
    /\ BtScenario
    /\ cb.pc = "idle"
    /\ IF spp_handle # 0
       THEN /\ spp_second_connexion' = TRUE
            /\ OpEvent("_open", OtherHandle)
            /\ UNCHANGED <<spp_handle, spp_tx_buffer, spp_rx_buffer,
                           spp_writing, writer, bt_call, sent, rcv, nBt>>
       ELSE /\ nBt.open < MaxOpen
            /\ writer.pc \in {"none", "idle"}
            /\ spp_handle' = nBt.open + 1
            /\ spp_rx_buffer' = xRingbufferCreate(RxSize)
            /\ spp_tx_buffer' = xRingbufferCreate(TxSize)
            /\ spp_writing' = FALSE
            /\ writer' = [pc |-> "idle", handle |-> nBt.open + 1, count |-> 0,
                          from |-> "none", chunk |-> <<>>]
            /\ bt_call' = IdleCall
            /\ sent' = [accepted |-> 0, handed |-> <<>>, chunk |-> <<>>,
                      last |-> NULL]
            /\ rcv' = [accepted |-> <<>>, offered |-> 0, given |-> <<>>, asked |-> 0]
            /\ nBt' = [nBt EXCEPT !.open = @ + 1]
            /\ OpEvent("_open", nBt.open + 1)
            /\ UNCHANGED spp_second_connexion
    /\ UNCHANGED <<now, spp_last_us, cb, link>>
    /\ UNCHANGED notBt

\* ESP_SPP_CLOSE_EVT: _close, for the refused connection or for the open one
\* (between two calls of the session task)
esp_spp_cb_close ==
    /\ BtScenario
    /\ cb.pc = "idle"
    /\ \E handle \in {spp_handle, OtherHandle} :
        /\ OpEvent("_close", handle)
        /\ IF CloseOther(handle)
           THEN /\ spp_second_connexion
                /\ spp_second_connexion' = FALSE
                /\ UNCHANGED <<spp_handle, spp_tx_buffer, spp_rx_buffer, link>>
           ELSE /\ spp_handle # 0
                /\ writer.pc = "idle"
                /\ spp_rx_buffer' = NULL
                /\ spp_tx_buffer' = NULL
                /\ spp_handle' = 0
                /\ link' = [pending |-> 0, cong |-> FALSE]
                /\ UNCHANGED spp_second_connexion
    /\ UNCHANGED <<now, spp_writing, spp_last_us, writer, cb, bt_call, sent,
                   nBt, rcv>>
    /\ UNCHANGED notBt

\* _write, lines 142-148: the handle test and xRingbufferReceiveUpTo, which
\* gives a chunk, or NULL once it has waited spp_tx_ticksToWait for nothing
WriteReceive(handle) ==
    IF HandleMismatch(handle)
    THEN [pc |-> "ret", chunk |-> <<>>, rb |-> spp_tx_buffer]
    ELSE IF ByteBufItemAvail(spp_tx_buffer)
    THEN LET r == xRingbufferReceiveUpTo(spp_tx_buffer, Mtu)
         IN  [pc |-> "send", chunk |-> r.data, rb |-> r.rb]
    ELSE [pc |-> "clear", chunk |-> <<>>, rb |-> spp_tx_buffer]

\* the results esp_spp_write may give (in the pipeline scenario the link
\* takes every write)
SppWriteResults == IF scn = "pipeline" THEN {TRUE} ELSE BOOLEAN

\* _write, lines 153-160: esp_spp_write, vRingbufferReturnItem and, when
\* the write was taken, the timestamp
WriteSend(chunk, ok) ==
    /\ spp_tx_buffer' = vRingbufferReturnItem(spp_tx_buffer)
    /\ spp_last_us' = IF ok THEN Trunc32(now) ELSE spp_last_us
    /\ link' = IF ok THEN [link EXCEPT !.pending = @ + 1] ELSE link
    /\ sent' = [sent EXCEPT !.handed = @ \o chunk,
                            !.chunk = chunk,
                            !.last = IF ok THEN [null |-> FALSE, us |-> now]
                                    ELSE @]

\* bt_write, lines 186-193: the argument tests and xRingbufferSend
bt_write ==
    /\ BtScenario
    /\ writer.pc = "idle"
    /\ \E count \in 0 .. MaxCount :
        /\ sent.accepted + count <= ByteLimit
        /\ IF count = 0
           THEN /\ bt_call' = IdleCall
                /\ UNCHANGED <<writer, spp_tx_buffer, sent>>
           ELSE IF HandleMismatch(writer.handle)
           THEN /\ bt_call' = [IdleCall EXCEPT !.count = count, !.ret = -1]
                /\ UNCHANGED <<writer, spp_tx_buffer, sent>>
           ELSE \E r \in {ByteBufSend(spp_tx_buffer,
                                      Bytes(sent.accepted, count))} :
                /\ spp_tx_buffer' = r.rb
                /\ sent' = [sent EXCEPT !.accepted = Len(r.rb.buf) - Len(spp_tx_buffer.buf) + @]
                /\ writer' = [writer EXCEPT
                                 !.pc = IF r.done THEN "sent" ELSE "full",
                                 !.count = count]
                /\ bt_call' = [count |-> count,
                               room |-> xRingbufferGetCurFreeSize(spp_tx_buffer),
                               done |-> r.done,
                               queued |-> Len(r.rb.buf) - Len(spp_tx_buffer.buf),
                               returned |-> FALSE, ret |-> 0,
                               stall |-> FALSE, drained |-> 0]
    /\ UNCHANGED <<now, spp_handle, spp_writing, spp_last_us,
                   spp_second_connexion, cb, link, nBt>>
    /\ UNCHANGED notTx

\* bt_write returns
Returned(val) == [bt_call EXCEPT !.returned = TRUE, !.ret = val]

\* bt_write, lines 217-222: the bytes are queued
bt_write_sent ==
    /\ writer.pc = "sent"
    /\ IF ~spp_writing
       THEN /\ spp_writing' = TRUE
            /\ writer' = [writer EXCEPT !.pc = "recv", !.from = "sent"]
            /\ UNCHANGED bt_call
       ELSE /\ writer' = [writer EXCEPT !.pc = "idle"]
            /\ bt_call' = Returned(BtWriteReturn(TRUE, writer.count))
            /\ UNCHANGED spp_writing
    /\ UNCHANGED <<now, spp_handle, spp_tx_buffer, spp_last_us,
                   spp_second_connexion, cb, link, sent, nBt>>
    /\ UNCHANGED notTx

\* bt_write, lines 196-204: the ring had no room; the stall test
bt_write_full ==
    /\ writer.pc = "full"
    /\ IF spp_writing /\ StallElapsed(now, spp_last_us)
       THEN /\ writer' = [writer EXCEPT !.pc = "recv", !.from = "stall"]
            /\ bt_call' = [bt_call EXCEPT !.stall = TRUE]
       ELSE /\ writer' = [writer EXCEPT !.pc = "full2"]
            /\ UNCHANGED bt_call
    /\ UNCHANGED <<now, spp_handle, spp_tx_buffer, spp_writing, spp_last_us,
                   spp_second_connexion, cb, link, sent, nBt>>
    /\ UNCHANGED notTx

\* bt_write, lines 205-211: the ring had no room; no drain is believed
\* outstanding
bt_write_full2 ==
    /\ writer.pc = "full2"
    /\ IF ~spp_writing
       THEN /\ spp_writing' = TRUE
            /\ writer' = [writer EXCEPT !.pc = "recv", !.from = "force"]
            /\ UNCHANGED bt_call
       ELSE /\ writer' = [writer EXCEPT !.pc = "idle"]
            /\ bt_call' = Returned(BtWriteReturn(FALSE, writer.count))
            /\ UNCHANGED spp_writing
    /\ UNCHANGED <<now, spp_handle, spp_tx_buffer, spp_last_us,
                   spp_second_connexion, cb, link, sent, nBt>>
    /\ UNCHANGED notTx

\* the session task leaves _write: back into bt_write where it was called
TaskLeavesWrite(drained) ==
    /\ writer' = [writer EXCEPT
                     !.pc = IF writer.from = "stall" THEN "full2" ELSE "idle",
                     !.chunk = <<>>]
    /\ bt_call' =
          LET c == [bt_call EXCEPT !.drained = @ + drained]
          IN  IF writer.from = "stall" THEN c
              ELSE [c EXCEPT !.returned = TRUE,
                             !.ret = BtWriteReturn(writer.from = "sent",
                                                   writer.count)]

\* _write in the session task: lines 142-148
task_write_recv ==
    /\ writer.pc = "recv"
    /\ \E r \in {WriteReceive(writer.handle)} :
        /\ spp_tx_buffer' = r.rb
        /\ IF r.pc = "ret"
           THEN TaskLeavesWrite(0)
           ELSE /\ writer' = [writer EXCEPT !.pc = r.pc, !.chunk = r.chunk]
                /\ UNCHANGED bt_call
    /\ UNCHANGED <<now, spp_handle, spp_writing, spp_last_us,
                   spp_second_connexion, cb, link, sent, nBt>>
    /\ UNCHANGED notTx

\* _write in the session task: lines 153-177
task_write_send ==
    /\ writer.pc = "send"
    /\ \E ok \in SppWriteResults : WriteSend(writer.chunk, ok)
    /\ TaskLeavesWrite(1)
    /\ UNCHANGED <<now, spp_handle, spp_writing, spp_second_connexion, cb,
                   nBt>>
    /\ UNCHANGED notTx

\* _write in the session task: lines 178-181
task_write_clear ==
    /\ writer.pc = "clear"
    /\ spp_writing' = FALSE
    /\ TaskLeavesWrite(0)
    /\ UNCHANGED <<now, spp_handle, spp_tx_buffer, spp_last_us,
                   spp_second_connexion, cb, link, sent, nBt>>
    /\ UNCHANGED notTx

\* ESP_SPP_WRITE_EVT: an earlier esp_spp_write is reported; _write follows
\* when the link is not congested
esp_spp_cb_write ==
    /\ cb.pc = "idle"
    /\ spp_handle # 0
    /\ link.pending > 0
    /\ link' = [link EXCEPT !.pending = @ - 1]
    /\ cb' = IF link.cong THEN cb
             ELSE [pc |-> "recv", handle |-> spp_handle, chunk |-> <<>>]
    /\ UNCHANGED <<now, spp_handle, spp_tx_buffer, spp_writing, spp_last_us,
                   spp_second_connexion, writer, bt_call, sent, nBt>>
    /\ UNCHANGED notTx

\* ESP_SPP_CONG_EVT: the link reports congestion, or its end; _write
\* follows the end
esp_spp_cb_cong ==
    /\ cb.pc = "idle"
    /\ spp_handle # 0
    /\ link' = [link EXCEPT !.cong = ~@]
    /\ cb' = IF ~link.cong THEN cb
             ELSE [pc |-> "recv", handle |-> spp_handle, chunk |-> <<>>]
    /\ UNCHANGED <<now, spp_handle, spp_tx_buffer, spp_writing, spp_last_us,
                   spp_second_connexion, writer, bt_call, sent, nBt>>
    /\ UNCHANGED notTx

\* _write in the Bluetooth task: lines 142-148
cb_write_recv ==
    /\ cb.pc = "recv"
    /\ \E r \in {WriteReceive(cb.handle)} :
        /\ spp_tx_buffer' = r.rb
        /\ cb' = IF r.pc = "ret" THEN [cb EXCEPT !.pc = "idle"]
                 ELSE [cb EXCEPT !.pc = r.pc, !.chunk = r.chunk]
    /\ UNCHANGED <<now, spp_handle, spp_writing, spp_last_us,
                   spp_second_connexion, writer, link, bt_call, sent, nBt>>
    /\ UNCHANGED notTx

\* _write in the Bluetooth task: lines 153-177
cb_write_send ==
    /\ cb.pc = "send"
    /\ \E ok \in SppWriteResults : WriteSend(cb.chunk, ok)
    /\ cb' = [cb EXCEPT !.pc = "idle", !.chunk = <<>>]
    /\ UNCHANGED <<now, spp_handle, spp_writing, spp_second_connexion, writer,
                   bt_call, nBt>>
    /\ UNCHANGED notTx

\* _write in the Bluetooth task: lines 178-181
cb_write_clear ==
    /\ cb.pc = "clear"
    /\ spp_writing' = FALSE
    /\ cb' = [cb EXCEPT !.pc = "idle"]
    /\ UNCHANGED <<now, spp_handle, spp_tx_buffer, spp_last_us,
                   spp_second_connexion, writer, link, bt_call, sent, nBt>>
    /\ UNCHANGED notTx

\* the handles the callers of the connect scenario hold: of a connection
\* the server accepted, or of one it refused
ConnHandles == (1 .. MaxOpen) \cup {OtherHandle}

\* ESP_SPP_DATA_IND_EVT: _read; the chunk goes into the receive ring whole
\* or not at all
esp_spp_cb_data_ind ==
    /\ ConnScenario
    /\ cb.pc = "idle"
    /\ \E handle \in ConnHandles : \E len \in 1 .. MaxCount :
        IF HandleMismatch(handle)
        THEN /\ Op("_read", handle, 0)
             /\ UNCHANGED <<spp_rx_buffer, rcv>>
        ELSE /\ rcv.offered + len <= InLimit
             /\ \E r \in {ByteBufSend(spp_rx_buffer, Bytes(rcv.offered, len))} :
                  /\ spp_rx_buffer' = r.rb
                  /\ rcv' = [rcv EXCEPT !.offered = @ + len,
                                        !.accepted = IF r.done
                                                     THEN @ \o Bytes(rcv.offered, len)
                                                     ELSE @]
                  /\ Op("_read", handle, IF r.done THEN len ELSE 0)
    /\ UNCHANGED <<now, spp_handle, spp_tx_buffer, spp_writing, spp_last_us,
                   spp_second_connexion, writer, cb, link, bt_call, sent, nBt>>
    /\ UNCHANGED notBt

\* the count of the last bt_read, kept in the receive scenario
Asked(count) == IF scn = "receive" THEN count ELSE 0

\* bt_read: the bytes waiting in the receive ring, up to count and up to
\* the end of the storage; 0 when the wait ends with nothing
bt_read ==
    /\ ConnScenario
    /\ \E handle \in ConnHandles : \E count \in 1 .. MaxCount :
        IF HandleMismatch(handle)
        THEN /\ Op("bt_read", handle, -1)
             /\ UNCHANGED <<spp_rx_buffer, rcv>>
        ELSE IF ByteBufItemAvail(spp_rx_buffer)
        THEN \E r \in {xRingbufferReceiveUpTo(spp_rx_buffer, count)} :
                  /\ spp_rx_buffer' = vRingbufferReturnItem(r.rb)
                  /\ rcv' = [rcv EXCEPT !.given = @ \o r.data, !.asked = Asked(count)]
                  /\ Op("bt_read", handle, Len(r.data))
        ELSE /\ Op("bt_read", handle, 0)
             /\ rcv' = [rcv EXCEPT !.asked = Asked(count)]
             /\ UNCHANGED spp_rx_buffer
    /\ UNCHANGED <<now, spp_handle, spp_tx_buffer, spp_writing, spp_last_us,
                   spp_second_connexion, writer, cb, link, bt_call, sent, nBt>>
    /\ UNCHANGED notBt

\* bt_close: asks the stack to disconnect; _close follows with the event
bt_close ==
    /\ scn = "connect"
    /\ \E handle \in ConnHandles :
        Op("bt_close", handle, BtCloseReturn(handle))
    /\ UNCHANGED <<now, spp_handle, spp_tx_buffer, spp_writing, spp_last_us,
                   spp_second_connexion, writer, cb, link, bt_call, sent, nBt,
                   spp_rx_buffer, rcv>>
    /\ UNCHANGED notBt

bt_get_tx_free ==
    /\ scn = "connect"
    /\ \E handle \in ConnHandles :
        Op("bt_get_tx_free", handle,
           IF HandleMismatch(handle) THEN -1
           ELSE xRingbufferGetCurFreeSize(spp_tx_buffer))
    /\ UNCHANGED <<now, spp_handle, spp_tx_buffer, spp_writing, spp_last_us,
                   spp_second_connexion, writer, cb, link, bt_call, sent, nBt,
                   spp_rx_buffer, rcv>>
    /\ UNCHANGED notBt

bt_get_rx_free ==
    /\ scn = "connect"
    /\ \E handle \in ConnHandles :
        Op("bt_get_rx_free", handle,
           IF HandleMismatch(handle) THEN -1
           ELSE xRingbufferGetCurFreeSize(spp_rx_buffer))
    /\ UNCHANGED <<now, spp_handle, spp_tx_buffer, spp_writing, spp_last_us,
                   spp_second_connexion, writer, cb, link, bt_call, sent, nBt,
                   spp_rx_buffer, rcv>>
    /\ UNCHANGED notBt

\* bt_discard_tx_buffer: takes the oldest chunk off the transmit ring
bt_discard_tx_buffer ==
    /\ scn = "connect"
    /\ \E handle \in ConnHandles :
        IF HandleMismatch(handle)
        THEN /\ Op("bt_discard_tx_buffer", handle, -1)
             /\ UNCHANGED spp_tx_buffer
        ELSE IF ByteBufItemAvail(spp_tx_buffer)
        THEN \E r \in {xRingbufferReceiveUpTo(spp_tx_buffer, TxSize)} :
                  /\ spp_tx_buffer' = vRingbufferReturnItem(r.rb)
                  /\ Op("bt_discard_tx_buffer", handle, Len(r.data))
        ELSE /\ Op("bt_discard_tx_buffer", handle, 0)
             /\ UNCHANGED spp_tx_buffer
    /\ UNCHANGED <<now, spp_handle, spp_writing, spp_last_us,
                   spp_second_connexion, writer, cb, link, bt_call, sent, nBt,
                   spp_rx_buffer, rcv>>
    /\ UNCHANGED notBt

\* ESP_SPP_WRITE_EVT or ESP_SPP_CONG_EVT (cong 0) of a connection that is
\* not the open one: _write is called with its handle
esp_spp_cb_stale ==
    /\ scn = "connect"
    /\ cb.pc = "idle"
    /\ \E handle \in ConnHandles :
        /\ HandleMismatch(handle)
        /\ cb' = [pc |-> "recv", handle |-> handle, chunk |-> <<>>]
    /\ UNCHANGED <<now, spp_handle, spp_tx_buffer, spp_writing, spp_last_us,
                   spp_second_connexion, writer, link, bt_call, sent, nBt>>
    /\ UNCHANGED notTx

\* connections come and go; every entry point is called with the handle of
\* the open connection and with others
ConnNext ==
    \/ esp_spp_cb_srv_open
    \/ esp_spp_cb_close
    \/ esp_spp_cb_data_ind
    \/ esp_spp_cb_stale
    \/ cb_write_recv
    \/ bt_write
    \/ bt_write_sent
    \/ task_write_recv
    \/ task_write_send
    \/ task_write_clear
    \/ bt_read
    \/ bt_close
    \/ bt_get_tx_free
    \/ bt_get_rx_free
    \/ bt_discard_tx_buffer

\* the session task, once inside bt_write, runs on to the return
TaskProgress ==
    \/ bt_write_sent
    \/ bt_write_full
    \/ bt_write_full2
    \/ task_write_recv
    \/ task_write_send
    \/ task_write_clear

\* esp_spp_cb, once called with an event, runs on to its return
CbProgress ==
    \/ cb_write_recv
    \/ cb_write_send
    \/ cb_write_clear

\* the end of a congestion is reported
CongRelief == link.cong /\ esp_spp_cb_cong

\* a connection that stays open
PipeNext ==
    \/ bt_time_passes
    \/ esp_spp_cb_srv_open
    \/ bt_write
    \/ bt_write_sent
    \/ bt_write_full
    \/ bt_write_full2
    \/ task_write_recv
    \/ task_write_send
    \/ task_write_clear
    \/ esp_spp_cb_write
    \/ esp_spp_cb_cong
    \/ cb_write_recv
    \/ cb_write_send
    \/ cb_write_clear

BtNext ==
    \/ bt_time_passes
    \/ esp_spp_cb_srv_open
    \/ esp_spp_cb_close
    \/ bt_write
    \/ bt_write_sent
    \/ bt_write_full
    \/ bt_write_full2
    \/ task_write_recv
    \/ task_write_send
    \/ task_write_clear
    \/ esp_spp_cb_write
    \/ esp_spp_cb_cong
    \/ cb_write_recv
    \/ cb_write_send
    \/ cb_write_clear

----------------------------------------------------------------------------
(* Specifications *)

\* the rate-limit scenario: one subscriber, frames at every spacing
InitCan ==
    /\ scn = "rate"
    /\ now = BootTime
    /\ CanInit
    /\ ElmInit
    /\ BtInit

\* the fan-out scenario: several subscribers that do not read, one bus frame
\* and the simulation task
InitFan ==
    /\ scn = "fanout"
    /\ now = BootTime
    /\ CanInit
    /\ ElmInit
    /\ BtInit

\* a terminal session: lines, resets, filters and the monitor
InitElm ==
    /\ scn = "session"
    /\ now = BootTime
    /\ CanInit
    /\ ElmInit
    /\ BtInit

\* a Bluetooth connection: the session task writes, the stack reports
InitBt ==
    /\ scn = "transport"
    /\ now = BootTime
    /\ CanInit
    /\ ElmInit
    /\ BtInit

\* esp_timer_get_time() when the uptime scenario starts: 3 s before the
\* clock reaches 2^32 us (71 min 35 s after boot), and at 2^32 us
UpTimes == {T64Sub(<<1, 0, 0>>, T64(3000000)), <<1, 0, 0>>}

\* a Bluetooth connection on a device that has been up for more than an hour
InitUp ==
    /\ scn = "uptime"
    /\ now \in UpTimes
    /\ CanInit
    /\ ElmInit
    /\ BtInit

SpecUp == InitUp /\ [][BtNext]_vars

\* a Bluetooth connection that stays open on a link that takes every write
InitPipe ==
    /\ scn = "pipeline"
    /\ now = BootTime
    /\ CanInit
    /\ ElmInit
    /\ BtInit

\* connections are accepted, refused and closed
InitConn ==
    /\ scn = "connect"
    /\ now = BootTime
    /\ CanInit
    /\ ElmInit
    /\ BtInit

\* a terminal session that monitors, with the clock and timed frames
InitMon ==
    /\ scn = "monitor"
    /\ now = BootTime
    /\ CanInit
    /\ ElmInit
    /\ BtInit

SpecMon == InitMon /\ [][MonNext]_vars

\* a session that sets filters and monitors a queue of frames
StrNext ==
    \/ elm_do_line
    \/ mon_bus_frame
    \/ elm_monitor_task_begin
    \/ elm_monitor_task_turn
    \/ elm_monitor_task_end

InitStr ==
    /\ scn = "stream"
    /\ now = BootTime
    /\ CanInit
    /\ ElmStart(elm_do_cmd(elm_reset(ZeroGlobals),
                            <<"A", "T", "S", "T", "3", "2">>, TRUE).g, <<>>, <<>>)
    /\ BtInit

SpecStr == InitStr /\ [][StrNext]_vars

\* a terminal session whose lines arrive key by key
InitKey ==
    /\ scn = "typing"
    /\ now = BootTime
    /\ CanInit
    /\ ElmInit
    /\ BtInit

SpecKey == InitKey /\ [][KeyNext]_vars

\* the handle of a queue: the queues the scenario starts with are numbered
\* from 101, the queue that task t creates is t
Handle(rb) == rb.h
Registered == {Handle(can_rx_ringbuf[i]) : i \in LiveSubs}

\* the scenarios whose tasks call can_ringbuf_new step by step
RegScenario == scn \in {"registry", "destroy"}

\* can_ringbuf_new(50) in task t, lines 228-229: the scan for a slot that is
\* NULL; with none the call returns NULL
reg_new_scan(t) ==
    /\ RegScenario
    /\ t \notin fo.freed
    /\ rt[t].pc = "idle"
    /\ rt[t].buf = NULL
    /\ IF \E i \in 1..CAN_MAX_CB : can_rx_ringbuf[i] = NULL
       THEN rt' = [rt EXCEPT ![t].pc = "create",
                             ![t].slot = CHOOSE k \in 1..CAN_MAX_CB :
                                   /\ can_rx_ringbuf[k] = NULL
                                   /\ \A j \in 1..(k - 1) : can_rx_ringbuf[j] # NULL]
       ELSE rt' = [rt EXCEPT ![t].op = "new", ![t].ret = NULL, ![t].seq = 1 - @]
    /\ UNCHANGED <<scn, now, canVars, elmVars, btVars, mt, mq, kb, sesVars, ms, simu, fo>>

\* can_ringbuf_new in task t, lines 230-231: xRingbufferCreateNoSplit gives a
\* queue or NULL, the result is stored in the slot found and returned
reg_new_set(t) ==
    /\ RegScenario
    /\ rt[t].pc = "create"
    /\ \E rb \in {[RingbufCreateNoSplit(50) EXCEPT !.h = t], NULL} :
        /\ can_rx_ringbuf' = [can_rx_ringbuf EXCEPT ![rt[t].slot] = rb]
        /\ rt' = [rt EXCEPT ![t] = [pc |-> "idle", slot |-> 0, buf |-> rb,
                                    op |-> "new", ret |-> rb, seq |-> 1 - @.seq]]
    /\ UNCHANGED <<scn, now, can_id_last_us, can_simu_task_run, simu_pc,
                   can_task_pc, rx, ingest, raised, nRx>>
    /\ UNCHANGED <<elmVars, btVars, mt, mq, kb, sesVars, ms, simu, fo>>

\* can_ringbuf_del(buf) in task t, lines 237-248
reg_del(t) ==
    /\ scn = "registry"
    /\ rt[t].pc = "idle"
    /\ rt[t].buf # NULL
    /\ can_rx_ringbuf' = [i \in 1..CAN_MAX_CB |->
            IF /\ can_rx_ringbuf[i] = rt[t].buf
               /\ \A j \in 1..(i - 1) : can_rx_ringbuf[j] # rt[t].buf
            THEN NULL ELSE can_rx_ringbuf[i]]
    /\ rt' = [rt EXCEPT ![t].buf = NULL, ![t].op = "del",
                        ![t].ret = (\E i \in 1..CAN_MAX_CB : can_rx_ringbuf[i] = rt[t].buf),
                        ![t].seq = 1 - @]
    /\ UNCHANGED <<scn, now, can_id_last_us, can_simu_task_run, simu_pc,
                   can_task_pc, rx, ingest, raised, nRx>>
    /\ UNCHANGED <<elmVars, btVars, mt, mq, kb, sesVars, ms, simu, fo>>

\* can_ringbuf_del by the owner of the first queue the scenario started with
reg_del_other ==
    /\ scn = "registry"
    /\ \E i \in LiveSubs :
        /\ Handle(can_rx_ringbuf[i]) = 101
        /\ can_rx_ringbuf' = [can_rx_ringbuf EXCEPT ![i] = NULL]
    /\ UNCHANGED <<scn, now, can_id_last_us, can_simu_task_run, simu_pc,
                   can_task_pc, rx, ingest, raised, nRx>>
    /\ UNCHANGED notCan

\* can_rx_ringbuf[i] == ringbuf: the slot holds the handle of that queue
Holds(i, ringbuf) ==
    can_rx_ringbuf[i] # NULL /\ Handle(can_rx_ringbuf[i]) = Handle(ringbuf)

\* can_ringbuf_del(buf) at _exit of the monitor task t, lines 239-241: the
\* scan for the slot that holds buf
del_scan(t) ==
    /\ scn = "destroy"
    /\ rt[t].pc = "idle"
    /\ rt[t].buf # NULL
    /\ IF \E i \in 1..CAN_MAX_CB : Holds(i, rt[t].buf)
       THEN rt' = [rt EXCEPT ![t].pc = "delete",
                             ![t].slot = CHOOSE k \in 1..CAN_MAX_CB :
                                   /\ Holds(k, rt[t].buf)
                                   /\ \A j \in 1..(k - 1) : ~Holds(j, rt[t].buf)]
       ELSE rt' = [rt EXCEPT ![t].buf = NULL, ![t].op = "del", ![t].ret = FALSE,
                             ![t].seq = 1 - @]
    /\ UNCHANGED <<scn, now, canVars, elmVars, btVars, mt, mq, kb, sesVars, ms, simu, fo>>

\* can_ringbuf_del, line 242: vRingbufferDelete(can_rx_ringbuf[i]) frees the
\* queue the slot holds; the slot still holds the handle
del_delete(t) ==
    /\ scn = "destroy"
    /\ rt[t].pc = "delete"
    /\ fo' = [fo EXCEPT !.freed =
                 IF can_rx_ringbuf[rt[t].slot] = NULL THEN @
                 ELSE @ \cup {Handle(can_rx_ringbuf[rt[t].slot])}]
    /\ rt' = [rt EXCEPT ![t].pc = "clear"]
    /\ UNCHANGED <<scn, now, canVars, elmVars, btVars, mt, mq, kb, sesVars, ms, simu>>

\* can_ringbuf_del, lines 243-244: can_rx_ringbuf[i] = NULL; return true
del_clear(t) ==
    /\ scn = "destroy"
    /\ rt[t].pc = "clear"
    /\ can_rx_ringbuf' = [can_rx_ringbuf EXCEPT ![rt[t].slot] = NULL]
    /\ rt' = [rt EXCEPT ![t] = [pc |-> "idle", slot |-> 0, buf |-> NULL,
                                op |-> "del", ret |-> TRUE, seq |-> 1 - @.seq]]
    /\ UNCHANGED <<scn, now, can_id_last_us, can_simu_task_run, simu_pc,
                   can_task_pc, rx, ingest, raised, nRx>>
    /\ UNCHANGED <<elmVars, btVars, mt, mq, kb, sesVars, ms, simu, fo>>

\* can_task has a frame to forward and enters _can_raise, line 217
raise_begin ==
    /\ scn = "destroy"
    /\ fo.pc = "idle"
    /\ fo.n < MaxRx
    /\ fo' = [fo EXCEPT !.pc = "test", !.i = 1, !.n = @ + 1]
    /\ UNCHANGED <<scn, now, canVars, elmVars, btVars, mt, mq, kb, sesVars, rt, ms, simu>>

\* _can_raise, line 218: if (can_rx_ringbuf[i]), from slot fo.i on; the slots
\* that are NULL are passed over in one step, up to the first that holds a
\* handle, and after the last slot the call returns
raise_test ==
    /\ scn = "destroy"
    /\ fo.pc = "test"
    /\ fo' = IF \E k \in fo.i .. CAN_MAX_CB : can_rx_ringbuf[k] # NULL
             THEN LET k == CHOOSE k \in fo.i .. CAN_MAX_CB :
                                /\ can_rx_ringbuf[k] # NULL
                                /\ \A j \in fo.i .. (k - 1) : can_rx_ringbuf[j] = NULL
                  IN  [fo EXCEPT !.pc = "send", !.i = k, !.rb = Handle(can_rx_ringbuf[k])]
             ELSE [fo EXCEPT !.pc = "idle", !.i = 0]
    /\ UNCHANGED <<scn, now, canVars, elmVars, btVars, mt, mq, kb, sesVars, rt, ms, simu>>

\* _can_raise, line 219: xRingbufferSend on the handle that was read.  On a
\* queue that is freed the call uses freed memory: it may return, or the
\* task may fault
raise_send ==
    /\ scn = "destroy"
    /\ fo.pc = "send"
    /\ \E next \in {IF fo.i < CAN_MAX_CB
                     THEN [fo EXCEPT !.pc = "test", !.i = @ + 1, !.rb = 0]
                     ELSE [fo EXCEPT !.pc = "idle", !.i = 0, !.rb = 0]} :
        IF fo.rb \in fo.freed
        THEN /\ \E pc \in {next.pc, "fault"} :
                  fo' = [next EXCEPT !.pc = pc, !.late = @ \cup {fo.rb}]
             /\ UNCHANGED can_rx_ringbuf
        ELSE /\ fo' = next
             /\ can_rx_ringbuf' =
                  [i \in 1..CAN_MAX_CB |->
                      IF can_rx_ringbuf[i] # NULL /\ Handle(can_rx_ringbuf[i]) = fo.rb
                      THEN RingbufSend(can_rx_ringbuf[i], Frame(306, now), 0).rb
                      ELSE can_rx_ringbuf[i]]
    /\ UNCHANGED <<scn, now, can_id_last_us, can_simu_task_run, simu_pc,
                   can_task_pc, rx, ingest, raised, nRx>>
    /\ UNCHANGED <<elmVars, btVars, mt, mq, kb, sesVars, rt, ms, simu>>

\* the ingest task forwards frames while two monitor tasks create their
\* queues and delete them
DelNext ==
    \/ \E t \in RegTasks :
           reg_new_scan(t) \/ reg_new_set(t) \/ del_scan(t) \/ del_delete(t) \/ del_clear(t)
    \/ raise_begin
    \/ raise_test
    \/ raise_send

InitDel ==
    /\ scn = "destroy"
    /\ now = BootTime
    /\ CanInit
    /\ ElmInit
    /\ BtInit

SpecDel == InitDel /\ [][DelNext]_vars

RegNext ==
    \/ \E t \in RegTasks : reg_new_scan(t) \/ reg_new_set(t) \/ reg_del(t)
    \/ reg_del_other

\* n monitor tasks hold their queues, two more are about to start
InitReg ==
    /\ scn = "registry"
    /\ now = BootTime
    /\ \E n \in RegFill :
        CanStart([i \in 1..CAN_MAX_CB |->
                    IF i <= n THEN [RingbufCreateNoSplit(50) EXCEPT !.h = 100 + i]
                    ELSE NULL])
    /\ ElmInit
    /\ BtInit

SpecReg == InitReg /\ [][RegNext]_vars

\* a session that has added np pass rules and nb block rules, and goes on
\* with filter commands
InitTab ==
    /\ scn = "table"
    /\ now = BootTime
    /\ CanInit
    /\ BtInit
    /\ \E np \in TabFill, nb \in TabFill :
        ElmStart(Filled(np, nb),
                 [i \in 1 .. np |-> Rule(U32(306), U32(2047))],
                 [i \in 1 .. nb |-> Rule(U32(599), U32(2047))])

TabNext == elm_do_line

SpecTab == InitTab /\ [][TabNext]_vars

\* malloc(sizeof(*g)): NULL (0), or a block that is not in use
MallocAny(h) == Blocks \cup {0}

Malloc(h) == {a \in Blocks : h[a] = NULL} \cup {0}

\* elm_do, lines 1550-1566, in the task of transport t: the block is
\* allocated, zeroed and reset and the prompt is written; with no memory
\* elm_do returns
ses_elm_do_begin(t) ==
    /\ scn = "sessions"
    /\ ses[t].pc \in {"none", "nomem"}
    /\ \E a \in Malloc(heap) :
        IF a = 0
        THEN /\ ses' = [ses EXCEPT ![t].pc = "nomem"]
             /\ UNCHANGED heap
        ELSE /\ heap' = [heap EXCEPT ![a] = elm_reset(ZeroGlobals)]
             /\ ses' = [ses EXCEPT ![t] = [pc |-> "read", g |-> a, line |-> <<>>,
                                           out |-> <<ELM_PROMPT>>, seq |-> @.seq]]
    /\ UNCHANGED <<scn, now, canVars, elmVars, btVars, mt, mq, kb, extVars>>

\* elm_do, lines 1595-1607, in the task of transport t: a line is dispatched
\* on the block g of that task. SIMU and REBOOT act on the whole device
ses_elm_do_line(t) ==
    /\ scn = "sessions"
    /\ ses[t].pc = "read"
    /\ nLines < LineLimit
    /\ \E line \in SessionLines : \E wifi_ok \in WifiResults(heap[ses[t].g], line) :
        \E r \in {elm_do_cmd(heap[ses[t].g], line, wifi_ok)} :
            /\ heap' = [heap EXCEPT ![ses[t].g] = r.g]
            /\ ses' = [u \in Transports |->
                        IF u = t
                        THEN [pc |-> IF r.fx = "reboot" THEN "rebooted" ELSE "read",
                              g |-> ses[t].g,
                              line |-> line,
                              out |-> (IF heap[ses[t].g].elm_echo THEN line ELSE <<>>)
                                      \o elm_newline(heap[ses[t].g])
                                      \o elm_newline(heap[ses[t].g]) \o r.out
                                      \o (IF r.g.elm_monitor THEN <<>> ELSE <<ELM_PROMPT>>),
                              seq |-> 1 - ses[t].seq]
                        ELSE IF r.fx = "reboot"
                        THEN [ses[u] EXCEPT !.pc = "rebooted"]
                        ELSE ses[u]]
            /\ can_simu_task_run' =
                    IF r.fx = "simu_start" THEN TRUE
                    ELSE IF r.fx = "simu_stop" THEN FALSE
                    ELSE can_simu_task_run
            /\ simu_pc' =
                    IF r.fx = "simu_start" /\ ~can_simu_task_run /\ simu_pc = "none"
                    THEN "delay" ELSE simu_pc
    /\ nLines' = nLines + 1
    /\ UNCHANGED <<scn, now, can_rx_ringbuf, can_id_last_us, can_task_pc, rx,
                   ingest, raised, nRx>>
    /\ UNCHANGED <<G, elm_pc, reply, tx, disp, pass_rules, block_rules, mon, mon_last>>
    /\ UNCHANGED <<btVars, mt, mq, kb, extVars>>

\* elm_do, lines 1572-1579 and 1624-1627, in the task of transport t: end of
\* the input, the block is freed; a later connection starts elm_do again
ses_elm_do_eof(t) ==
    /\ scn = "sessions"
    /\ ses[t].pc = "read"
    /\ heap' = [heap EXCEPT ![ses[t].g] = NULL]
    /\ ses' = [ses EXCEPT ![t].pc = "none", ![t].g = 0]
    /\ UNCHANGED <<scn, now, canVars, elmVars, btVars, mt, mq, kb, extVars>>

\* two transports, each with its own task in elm_do
SesNext ==
    \E t \in Transports :
        \/ ses_elm_do_begin(t)
        \/ ses_elm_do_line(t)
        \/ ses_elm_do_eof(t)

InitSes ==
    /\ scn = "sessions"
    /\ now = BootTime
    /\ CanInit
    /\ ElmInit
    /\ BtInit

SpecSes == InitSes /\ [][SesNext]_vars

\* what a monitor task reads in G.elm_monitor: the field while the block is
\* allocated, and whatever the memory holds by then once elm_do has freed it
ReadMonitorFlag == IF elm_pc = "ended" THEN BOOLEAN ELSE {G.elm_monitor}

\* elm_monitor_task t, lines 1458-1474: the run flag is set and
\* can_ringbuf_new(50) stores a new queue in the first slot that is NULL;
\* with no slot or no memory the task goes to _exit
elm_monitor_task_new(t) ==
    /\ scn = "release"
    /\ mon.created > 0
    /\ rt[t].pc = "idle"
    /\ G' = [G EXCEPT !.elm_monitor_task_run = TRUE]
    /\ mon' = [mon EXCEPT !.created = @ - 1, !.run = @ + 1]
    /\ \E rb \in {[RingbufCreateNoSplit(50) EXCEPT !.h = t], NULL} :
        \E buf \in {IF \E i \in 1..CAN_MAX_CB : can_rx_ringbuf[i] = NULL
                    THEN rb ELSE NULL} :
            /\ can_rx_ringbuf' =
                    [i \in 1..CAN_MAX_CB |->
                        IF /\ can_rx_ringbuf[i] = NULL
                           /\ \A j \in 1..(i - 1) : can_rx_ringbuf[j] # NULL
                        THEN rb ELSE can_rx_ringbuf[i]]
            /\ rt' = [rt EXCEPT ![t].pc = IF buf = NULL THEN "exit" ELSE "loop",
                                ![t].buf = buf, ![t].op = "new", ![t].ret = buf]
    /\ UNCHANGED <<scn, now, can_id_last_us, can_simu_task_run, simu_pc,
                   can_task_pc, rx, ingest, raised, nRx>>
    /\ UNCHANGED <<elm_pc, reply, tx, disp, pass_rules, block_rules, mon_last, nLines>>
    /\ UNCHANGED <<btVars, mt, mq, kb, sesVars, ms, simu, fo>>

\* elm_monitor_task t, lines 1476-1513: one turn of the loop.  The loop test
\* reads G.elm_monitor; the receive gives a frame or nothing; a frame that
\* passes is written, and a failed write ends the loop; then the timeout
\* test, whose outcome depends on the clock, which this scenario leaves open
elm_monitor_task_loop(t) ==
    /\ scn = "release"
    /\ rt[t].pc = "loop"
    /\ \E flag \in ReadMonitorFlag :
        IF ~flag
        THEN /\ rt' = [rt EXCEPT ![t].pc = "exit", ![t].seq = 1 - @]
             /\ UNCHANGED <<tx, mon_last>>
        ELSE \E got \in QueueFrames \cup {NULL}, written \in BOOLEAN,
                timeout \in BOOLEAN :
            LET pass == got # NULL /\ elm_filter_test(G, got.identifier)
                failed == pass /\ ~written
                nodata == ~failed /\ timeout
            IN  /\ pass \/ written
                /\ mon_last' = IF got # NULL
                               THEN [identifier |-> got.identifier,
                                     pass |-> pass, written |-> pass /\ written,
                                     seq |-> 1 - mon_last.seq]
                               ELSE mon_last
                /\ tx' = (IF pass THEN ElmWriteCan(G, got) ELSE <<>>)
                         \o (IF nodata
                             THEN <<ELM_NODATA_PROMPT, ELM_NEWLINE(G)>>
                             ELSE <<>>)
                /\ rt' = [rt EXCEPT ![t].pc = IF failed \/ nodata
                                              THEN "exit" ELSE "loop",
                                    ![t].seq = 1 - @]
    /\ UNCHANGED <<G, elm_pc, reply, disp, pass_rules, block_rules, mon, nLines>>
    /\ UNCHANGED <<scn, now, canVars, btVars, mt, mq, kb, sesVars, ms, simu, fo>>

\* elm_monitor_task t, lines 1515-1520: can_ringbuf_del(buf) clears the slot
\* that holds the queue, both flags are cleared, the task ends
elm_monitor_task_exit(t) ==
    /\ scn = "release"
    /\ rt[t].pc = "exit"
    /\ can_rx_ringbuf' =
            [i \in 1..CAN_MAX_CB |->
                IF /\ rt[t].buf # NULL
                   /\ can_rx_ringbuf[i] = rt[t].buf
                   /\ \A j \in 1..(i - 1) : can_rx_ringbuf[j] # rt[t].buf
                THEN NULL ELSE can_rx_ringbuf[i]]
    /\ G' = [G EXCEPT !.elm_monitor = FALSE, !.elm_monitor_task_run = FALSE]
    /\ mon' = [mon EXCEPT !.run = @ - 1, !.nul = 0]
    /\ rt' = [rt EXCEPT ![t].pc = "idle", ![t].buf = NULL, ![t].op = "del",
                        ![t].ret = (rt[t].buf = NULL
                                    \/ \E i \in 1..CAN_MAX_CB :
                                           can_rx_ringbuf[i] = rt[t].buf)]
    /\ UNCHANGED <<scn, now, can_id_last_us, can_simu_task_run, simu_pc,
                   can_task_pc, rx, ingest, raised, nRx>>
    /\ UNCHANGED <<elm_pc, reply, tx, disp, pass_rules, block_rules, mon_last, nLines>>
    /\ UNCHANGED <<btVars, mt, mq, kb, sesVars, ms, simu, fo>>

\* a session that starts and stops the monitor and ends, and its monitor
\* tasks, each with its queue in the registry
RelNext ==
    \/ elm_do_line
    \/ elm_do_stop
    \/ elm_do_stop_done
    \/ elm_do_eof
    \/ elm_do_end_done
    \/ \E t \in RegTasks :
        \/ elm_monitor_task_new(t)
        \/ elm_monitor_task_loop(t)
        \/ elm_monitor_task_exit(t)

InitRel ==
    /\ scn = "release"
    /\ now = BootTime
    /\ CanInit
    /\ ElmInit
    /\ BtInit

\* every task runs again and again: the session task in its vTaskDelay
\* loops, each monitor task from its creation to vTaskDelete
RelFair ==
    /\ WF_vars(elm_do_stop_done)
    /\ WF_vars(elm_do_end_done)
    /\ \A t \in RegTasks :
        /\ WF_vars(elm_monitor_task_new(t))
        /\ WF_vars(elm_monitor_task_loop(t))
        /\ WF_vars(elm_monitor_task_exit(t))

SpecRel == InitRel /\ [][RelNext]_vars /\ RelFair

\* the bus and the simulation task feed one subscriber, the clock moves
\* with both
MixNext ==
    \/ can_task
    \/ can_ringbuf_new
    \/ ringbuf_receive
    \/ can_simu_start
    \/ can_simu_stop
    \/ can_simu_task_132
    \/ can_simu_task_257

InitMix ==
    /\ scn = "mix"
    /\ now = BootTime
    /\ CanInit
    /\ ElmInit
    /\ BtInit

SpecMix == InitMix /\ [][MixNext]_vars

\* a session that selects protocols
ProtNext == elm_do_line

InitProt ==
    /\ scn = "protocol"
    /\ now = BootTime
    /\ CanInit
    /\ ElmInit
    /\ BtInit

SpecProt == InitProt /\ [][ProtNext]_vars

\* a session that sets and reads the device identifier
IdNext == elm_do_line

InitId ==
    /\ scn = "identifier"
    /\ now = BootTime
    /\ CanInit
    /\ ElmInit
    /\ BtInit

SpecId == InitId /\ [][IdNext]_vars

\* a session that sends toggle commands
TogNext == elm_do_line

InitTog ==
    /\ scn = "toggle"
    /\ now = BootTime
    /\ CanInit
    /\ ElmInit
    /\ BtInit

SpecTog == InitTog /\ [][TogNext]_vars

\* a connection on which the link delivers more than the receive ring holds
\* while the session reads
RcvNext ==
    \/ esp_spp_cb_srv_open
    \/ esp_spp_cb_close
    \/ esp_spp_cb_data_ind
    \/ bt_read

InitRcv ==
    /\ scn = "receive"
    /\ now = BootTime
    /\ CanInit
    /\ ElmInit
    /\ BtInit

SpecRcv == InitRcv /\ [][RcvNext]_vars

SpecCan == InitCan /\ [][RateNext]_vars

SpecFan == InitFan /\ [][CanNext]_vars

SpecElm == InitElm /\ [][ElmNext]_vars

SpecBt == InitBt /\ [][BtNext]_vars

SpecConn == InitConn /\ [][ConnNext]_vars

\* both tasks are scheduled, and the stack reports every write it took and
\* the end of every congestion
SpecPipe ==
    /\ InitPipe /\ [][PipeNext]_vars
    /\ WF_vars(TaskProgress)
    /\ WF_vars(CbProgress)
    /\ SF_vars(esp_spp_cb_write)
    /\ SF_vars(CongRelief)

----------------------------------------------------------------------------
(* Properties of can.c *)

\* whether id is in the allow-list
Listed(id) == \E i \in 1..can_id_count : can_id[i] = id

minInterval == T64(1000000 \div 11)

\* the last two ingestions of id, when there are two
Pair(id) == Len(ingest[id]) = 2
First(id) == ingest[id][1]
Second(id) == ingest[id][2]
PairD(id) == T64Sub(Second(id).ts, First(id).ts)

C2_AllowList ==
    /\ [](\A i \in 1..CAN_MAX_CB :
            can_rx_ringbuf[i] # NULL =>
                \A k \in 1..Len(can_rx_ringbuf[i].items) :
                    Listed(can_rx_ringbuf[i].items[k].identifier))
    /\ [][(nRx' # nRx /\ can_task_pc' = "run" /\ ~Listed(rx'.id)) =>
            /\ can_id_last_us' = can_id_last_us
            /\ can_rx_ringbuf' = can_rx_ringbuf
            /\ ~rx'.fwd]_vars

\* a frame outside the allow-list was ingested while a subscription was live
\* and the rate-limit table held a forwarded frame's time
C2_Witness ==
    /\ nRx > 1
    /\ ~Listed(rx.id)
    /\ LiveSubs # {}
    /\ \E i \in 1..can_id_count : can_id_last_us[i] # U32(0)

\* C3: a raised frame is appended exactly once to every live queue that has
\* room, a full queue is left as it is and does not keep the frame from the
\* others, free slots stay free, and no send waits.
C3_FanOut ==
    [][raised'.seq # raised.seq =>
        /\ \A i \in 1..CAN_MAX_CB :
            can_rx_ringbuf'[i] =
                IF can_rx_ringbuf[i] = NULL
                THEN NULL
                ELSE IF Len(can_rx_ringbuf[i].items) < can_rx_ringbuf[i].size
                     THEN [can_rx_ringbuf[i] EXCEPT
                                !.items = Append(@, raised'.msg)]
                     ELSE can_rx_ringbuf[i]
        /\ ~raised'.waited]_vars

\* a frame was raised while an earlier slot's queue was full and a later
\* slot's queue had room
C3_Witness ==
    \E a \in raised.full, b \in raised.sent : a < b
----------------------------------------------------------------------------
(* Properties of elm.c *)

\* the SessionConfig of a session block: its fields, the two tables read as
\* the lists of rules before the first slot with mask == 0
RuleList(filter) == SubSeq(filter, 1, FirstFree(filter) - 1)
Config(g) ==
    [g EXCEPT !.elm_monitor_task_run = FALSE,
              !.pass_filter = RuleList(@),
              !.block_filter = RuleList(@)]

\* the documented defaults (ELM_ECHO ... ELM_LONG_MESSAGE, ELM_DEFAULT_PROTOCOL)
DefaultConfig ==
    [elm_echo |-> TRUE, elm_linefeed |-> TRUE, elm_headers |-> TRUE,
     elm_spaces |-> TRUE, elm_dlc |-> FALSE, elm_timeout |-> U32(5000),
     elm_device_identifier |-> NullStr, elm_previous_cmd |-> <<>>,
     elm_memory |-> TRUE, elm_adaptive |-> 1,
     elm_can_auto_format |-> FALSE, elm_can_flow_control |-> TRUE,
     elm_can_silent_mode |-> TRUE, elm_long_message |-> FALSE,
     elm_protocol |-> "0", elm_protocol_auto |-> TRUE,
     elm_monitor |-> FALSE, elm_monitor_task_run |-> FALSE,
     elm_filter |-> Rule(U32(0), U32(0)),
     pass_filter |-> <<>>, block_filter |-> <<>>]

\* the line is this command, in any case, after any spaces
IsCmd(line, name) == StrCaseEq(SkipSpaces(line), name)
ResetLine(line) == IsCmd(line, <<"A", "T", "Z">>) \/ IsCmd(line, <<"A", "T", "W", "S">>) \/ IsCmd(line, <<"A", "T", "D">>)

\* WIFI STA <args>, WIFI AP <args>, WIFI STOP
WifiSetLine(line) ==
    LET w == SkipSpaces(Drop(SkipSpaces(line), 4))
    IN  /\ StrNCaseEq(SkipSpaces(line), <<"W", "I", "F", "I">>, 4)
        /\ \/ StrNCaseEq(w, <<"S", "T", "A">>, 3) /\ SkipSpaces(Drop(w, 3)) # <<>>
           \/ StrNCaseEq(w, <<"A", "P">>, 2) /\ SkipSpaces(Drop(w, 2)) # <<>>
           \/ StrNCaseEq(w, <<"S", "T", "O", "P">>, 4)

\* some rule of the list matches id
InList(rules, id) == \E k \in 1..Len(rules) : RuleMatch(rules[k], id)

\* C4 as stated: for the AT rule and the pass and block rules that the filter
\* commands have acknowledged, elm_filter_test(id) is (id != 0) and ATmatch and
\* (pass-list empty or id matches a pass rule) and not (block-list non-empty
\* and id matches a block rule).
C4_Precedence ==
    \A f \in MonFrames :
        elm_filter_test(G, f.identifier) =
            (/\ f.identifier # U32(0)
             /\ RuleMatch(G.elm_filter, f.identifier)
             /\ (pass_rules = <<>> \/ InList(pass_rules, f.identifier))
             /\ ~(block_rules # <<>> /\ InList(block_rules, f.identifier)))

\* C5 as stated: an empty line dispatched right after any non-empty line L
\* has the effect and the output of dispatching L again.
C5_BlankRepeatAll ==
    [][(disp'.seq # disp.seq /\ disp'.line = <<>> /\ disp.line # <<>>) =>
        /\ G' = elm_do_cmd(G, disp.line, TRUE).g
        /\ reply' = elm_do_cmd(G, disp.line, TRUE).out]_vars

\* C5: an empty line dispatched right after a non-empty line L has the effect
\* and the output of dispatching L again, unless L is ATZ, ATWS, ATD or a
\* WIFI STA/AP/STOP command: those forget the line, and the empty line is then
\* answered with '?' and changes nothing.
C5_BlankRepeat ==
    [][(disp'.seq # disp.seq /\ disp'.line = <<>> /\ disp.line # <<>>) =>
        IF ResetLine(disp.line) \/ WifiSetLine(disp.line)
        THEN /\ G' = G
             /\ reply' = <<ELM_QUERY_PROMPT, ELM_NEWLINE(G)>>
        ELSE /\ G' = elm_do_cmd(G, disp.line, TRUE).g
             /\ reply' = elm_do_cmd(G, disp.line, TRUE).out]_vars

\* an empty line has repeated a pass-rule command: the rule is there twice
C5_Witness ==
    /\ disp.line = <<>>
    /\ Len(pass_rules) = 2
    /\ pass_rules[1] = pass_rules[2]
    /\ reply = <<ELM_OK_PROMPT, ELM_NEWLINE(G)>>

\* C6 as stated: after ATZ every SessionConfig field has its default value.
C6_ResetComplete ==
    IsCmd(disp.line, <<"A", "T", "Z">>) => Config(G) = DefaultConfig

ResetOf(g) ==
    [DefaultConfig EXCEPT !.elm_device_identifier = g.elm_device_identifier]

----------------------------------------------------------------------------
(* Properties of bt.c *)

\* the bytes bt_write has accepted are numbered 1, 2, ... in the order of
\* their acceptance, so the first n of them are Bytes(0, n)

C9_Backpressure ==
    /\ bt_call.queued \in {0, bt_call.count}
    /\ (bt_call.returned /\ bt_call.count > 0 /\ bt_call.ret # -1) =>
          /\ bt_call.ret \in {0, bt_call.count}
          /\ bt_call.ret = 0 <=> bt_call.count > bt_call.room
          /\ bt_call.ret = bt_call.count => bt_call.queued = bt_call.count
          /\ bt_call.ret = 0 => bt_call.queued = 0

\* a call was refused although the ring had room for a part of its bytes,
\* and another was accepted whole
C9_Witness ==
    /\ bt_call.returned
    /\ bt_call.count = MaxCount
    /\ bt_call.ret = 0
    /\ bt_call.room > 0
    /\ bt_call.queued = 0
    /\ sent.accepted > 0

\* more than the 5 s of the stall test have passed since esp_spp_write last
\* succeeded
StallDue ==
    /\ ~sent.last.null
    /\ ~T64Geq(T64(5 * 1000000), T64Sub(now, sent.last.us))

\* C10, stall recovery: a bt_write call that finds the ring full while
\* spp_writing is set and more than 5 s have passed since the last
\* successful esp_spp_write enters _write; with the ring still full and no
\* event of the link being handled, _write takes a chunk from the ring and
\* gives it to esp_spp_write, and the ring has room again for as many bytes
C10_StallRecovery ==
    [][ /\ (writer.pc = "full" /\ writer'.pc # "full" /\ spp_writing /\ StallDue)
            => (writer'.pc = "recv" /\ writer'.from = "stall")
        /\ (writer.pc = "recv" /\ writer'.pc # "recv" /\ writer.from = "stall"
                /\ cb.pc = "idle"
                /\ xRingbufferGetCurFreeSize(spp_tx_buffer) < writer.count)
            => (writer'.pc = "send" /\ writer'.chunk # <<>>)
        /\ (writer.pc = "send" /\ writer'.pc # "send" /\ writer.from = "stall")
            => /\ sent'.handed = sent.handed \o writer.chunk
               /\ writer.chunk # <<>>
               /\ (cb.pc = "idle" =>
                     xRingbufferGetCurFreeSize(spp_tx_buffer')
                        >= Len(writer.chunk))
      ]_vars

\* a call found the ring full, passed the stall test, gave one chunk to
\* esp_spp_write and returned 0
C10_Witness ==
    /\ bt_call.returned
    /\ bt_call.stall
    /\ bt_call.drained = 1
    /\ bt_call.ret = 0
    /\ StallDue

\* C11, the pipeline is never stuck for good: on the open connection every
\* byte bt_write accepted is given to esp_spp_write at some later time
C11_NeverStuck ==
    \A n \in 1 .. MaxBytes :
        (sent.accepted >= n) ~> (Len(sent.handed) >= n)


\* one step of an entry point or event of the connect scenario
OpStep(op) == bt_op'.seq # bt_op.seq /\ bt_op'.op = op

\* the active connection: its id, both rings and the in-flight flag
Active == <<spp_handle, spp_rx_buffer, spp_tx_buffer, spp_writing>>

\* C12, a link-open event that arrives while a connection is active is
\* refused: the open callback starts no session task, and the active id, both
\* rings and the in-flight flag stay as they were; the later close event of
\* the refused connection leaves the active connection as it was too.  At
\* every moment the rings exist exactly while a connection is active.
C12_AlreadyOpen ==
    /\ [](/\ (spp_handle = 0) = (spp_tx_buffer = NULL)
          /\ (spp_handle = 0) = (spp_rx_buffer = NULL))
    /\ [][/\ (OpStep("_open") /\ spp_handle # 0) =>
                /\ UNCHANGED Active
                /\ UNCHANGED <<writer, bt_call, sent, rcv>>
                /\ nBt'.open = nBt.open
                /\ spp_second_connexion'
          /\ (OpStep("_close") /\ bt_op'.mismatch) =>
                /\ UNCHANGED Active
                /\ UNCHANGED <<writer, bt_call, sent, rcv>>
                /\ ~spp_second_connexion']_vars

\* the refused connection has come and gone beside an active connection that
\* holds received bytes
C12_Witness ==
    /\ bt_op.op = "_close"
    /\ bt_op.mismatch
    /\ spp_handle # 0
    /\ ~spp_second_connexion
    /\ spp_rx_buffer # NULL
    /\ spp_rx_buffer.buf # <<>>

\* a step of bt_write made for a handle other than the active one
BtWriteMismatch ==
    /\ writer.pc = "idle"
    /\ writer' = writer
    /\ bt_op' = bt_op
    /\ bt_call' # bt_call
    /\ writer.handle # spp_handle

\* a drain step (_write) made for a handle other than the active one
WriteMismatch ==
    /\ cb.pc = "recv"
    /\ cb' # cb
    /\ cb.handle # spp_handle

\* C13 as stated, every operation made with an id other than the active one
\* aborts, leaves both rings, the active id and the in-flight flag as they
\* were, and bt_write, bt_read and bt_close report an error result
C13_HandleMismatchAll ==
    [][/\ (bt_op'.seq # bt_op.seq /\ bt_op'.mismatch /\ bt_op'.op # "_open") =>
             /\ UNCHANGED Active
             /\ bt_op'.op \in {"bt_read", "bt_close"} => bt_op'.ret = -1
       /\ WriteMismatch => UNCHANGED Active /\ cb'.pc = "idle"
       /\ BtWriteMismatch => UNCHANGED Active /\ bt_call'.ret = -1]_vars

\* C13, every operation made with an id other than the active one aborts and
\* leaves both rings, the active id and the in-flight flag as they were;
\* bt_read and bt_close report an error result, and so does bt_write when it
\* was given at least one byte, while bt_write of no bytes returns 0
C13_HandleMismatch ==
    [][/\ (bt_op'.seq # bt_op.seq /\ bt_op'.mismatch /\ bt_op'.op # "_open") =>
             /\ UNCHANGED Active
             /\ bt_op'.op \in {"bt_read", "bt_close"} => bt_op'.ret = -1
       /\ WriteMismatch => UNCHANGED Active /\ cb'.pc = "idle"
       /\ BtWriteMismatch =>
             /\ UNCHANGED Active
             /\ bt_call'.ret = IF bt_call'.count > 0 THEN -1 ELSE 0]_vars

\* bt_read was called with the handle of a closed connection while the
\* active connection holds received bytes, and returned the error result
C13_Witness ==
    /\ bt_op.op = "bt_read"
    /\ bt_op.mismatch
    /\ bt_op.ret = -1
    /\ spp_handle # 0
    /\ spp_rx_buffer # NULL
    /\ spp_rx_buffer.buf # <<>>


\* lines that match no entry of the command table of elm_do_cmd: no known
\* prefix, a known prefix with nothing the table lists after it, and the
\* filter commands without their pattern or without the comma
UnknownLines ==
    { <<"X", "Y", "Z">>,
      <<"S", "T", "F", "A", "P", " ", "1", "3", "2">>,
      <<"S", "T", "F", "A", "B">>,
      <<"s", "t", "f", "b", "a", " ", "2", "5", "7", " ", "7", "F", "F">>,
      <<"S", "I", "M", "U">>,
      <<"A", "T">>,
      <<"A", "T", "H", "2">>,
      <<"A", "T", "E">>,
      <<" ", "Q">> }

\* C14, a dispatched line that matches no entry of the command table is
\* answered with "?" and the newline, changes no field of the session's block
\* but the stored previous command, and does not end the session, which
\* writes a prompt and reads on; and in every state the session reaches, each
\* of the unknown lines would be treated so.
C14_Unrecognized ==
    /\ [](\A line \in UnknownLines :
            \E r \in {elm_do_cmd(G, line, TRUE)} :
                /\ r.out = <<ELM_QUERY_PROMPT>> \o elm_newline(G)
                /\ r.g = [G EXCEPT !.elm_previous_cmd = line]
                /\ r.fx = "none")
    /\ [][(disp' # disp /\ disp'.line \in UnknownLines) =>
            /\ reply' = <<ELM_QUERY_PROMPT>> \o elm_newline(G)
            /\ G' = [G EXCEPT !.elm_previous_cmd = disp'.line]
            /\ elm_pc' = "read"
            /\ tx'[Len(tx')] = ELM_PROMPT
            /\ UNCHANGED <<pass_rules, block_rules, mon>>]_vars

\* a filter command without its comma was dispatched in a session whose
\* settings differ from the defaults, and was answered with "?"
C14_Witness ==
    /\ disp.line = <<"S", "T", "F", "A", "P", " ", "1", "3", "2">>
    /\ reply = <<ELM_QUERY_PROMPT>> \o elm_newline(G)
    /\ ~G.elm_echo
    /\ elm_pc = "read"


\* a turn of the monitor loop that did not end with a failed write
MonTurn ==
    /\ mt'.seq # mt.seq
    /\ ~(mt'.pc = "exit" /\ mt'.nodata = 0)

\* C15, the monitor writes NO DATA, once, and stops at the turn of its loop
\* that finds elm_timeout milliseconds gone since the last frame that passed
\* the filter (since the start, if none passed), and at no other turn.  The
\* last frame counts from its timestamp, as the loop counts it.
C15_IdleTimeout ==
    [][MonTurn =>
        /\ (mt'.nodata = 1) =
              T64Geq(T64Sub(now', mt'.pass_us), TimeoutUsWide(G))
        /\ (mt'.nodata = 1) =>
              /\ mt'.pc = "exit"
              /\ Len(tx') >= 2
              /\ SubSeq(tx', Len(tx') - 1, Len(tx')) =
                    <<ELM_NODATA_PROMPT, ELM_NEWLINE(G)>>]_vars


\* a monitor task wrote a frame line, or tried to
FrameLine == mon_last'.seq # mon_last.seq /\ mon_last'.pass

\* elm_do read a byte while the monitor flag was set
ByteWhileMonitoring ==
    /\ elm_pc = "read"
    /\ G.elm_monitor
    /\ elm_pc' \in {"read", "stop_wait"}
    /\ elm_pc' # elm_pc \/ mon'.nul # mon.nul

\* C16, a byte that arrives on the input while the monitor is active clears
\* the monitor flag, and a frame line whose write fails takes its task out of
\* the loop; once a byte has stopped the monitor no frame line is written
\* until a line has started the monitor again.
C16_Cancellation ==
    [][/\ ByteWhileMonitoring => ~G'.elm_monitor
       /\ (FrameLine /\ ~mon_last'.written) => mon'.exit = mon.exit + 1
       /\ FrameLine => mon.intr = 0]_vars


\* how many prompts a piece of output holds
Prompts(out) == Cardinality({i \in 1 .. Len(out) : out[i] = ELM_PROMPT})

\* the session waits for input, the monitor is off and no monitor task is left
Quiet ==
    /\ elm_pc = "read"
    /\ ~G.elm_monitor
    /\ ~G.elm_monitor_task_run
    /\ mon.created + mon.run + mon.exit = 0

\* C17, whatever stopped the monitor (the idle timeout, a byte on the input,
\* a failed write), once it is off and its tasks are gone the last thing
\* written to the output is a prompt; the step that ends the session writes no
\* prompt.
C17_PromptOnStop ==
    /\ [](Quiet => tx[Len(tx)] = ELM_PROMPT)
    /\ [][(elm_pc # "ended" /\ elm_pc' = "ended") =>
            (tx' = tx \/ Prompts(tx') = 0)]_vars

\* C18, the step that dispatches a line writes exactly one prompt when the
\* exchange is complete and none when the line started the monitor; no step
\* writes a prompt while the monitor flag is set; and when a line has been
\* dispatched, the monitor is off and the session waits for input, the output
\* ends with a prompt.
C18_PromptDiscipline ==
    /\ [][/\ disp' # disp =>
                Prompts(tx') = IF G'.elm_monitor THEN 0 ELSE 1
          /\ (tx' # tx /\ Prompts(tx') > 0) => ~G'.elm_monitor]_vars
    /\ []((Quiet /\ nLines > 0) =>
            (Len(tx) > 0 /\ Prompts(<<tx[Len(tx)]>>) = 1))


\* elm_do read a key other than '\r'
KeyStep == kb'.seq # kb.seq

\* C19, while elm_echo is clear (from the OK of ATE0 until ATE1 or a reset is
\* dispatched) a key that is read writes nothing to the output; while it is
\* set, a printable character that is stored is written once.
C19_Echo ==
    [][KeyStep =>
        /\ ~G.elm_echo => kb'.out = <<>>
        /\ (G.elm_echo /\ kb'.line = Append(kb.line, kb'.key)) =>
              kb'.out = <<kb'.key>>]_vars

\* what does hold: with elm_echo clear only backspace and delete write
EchoOffQuiet ==
    [][(KeyStep /\ ~G.elm_echo /\ kb'.key \notin {"BS", "DEL"}) =>
          kb'.out = <<>>]_vars

\* and with elm_echo set a stored character is written once
EchoOnce ==
    [][(KeyStep /\ G.elm_echo /\ kb'.line = Append(kb.line, kb'.key)) =>
          kb'.out = <<kb'.key>>]_vars

\* the task of transport t dispatched a line
SesDispatch(t) == ses'[t].seq # ses[t].seq

\* C20, session isolation: two sessions that run at the same time hold
\* different blocks, and a line dispatched in one of them changes no block
\* but its own: the block of the other session, and which block that is,
\* stay as they were, under every interleaving of the two tasks.
C20_SessionIsolation ==
    /\ [](\A t, u \in Transports :
            (t # u /\ ses[t].g # 0 /\ ses[u].g # 0) => ses[t].g # ses[u].g)
    /\ [][\A t, u \in Transports :
            (t # u /\ SesDispatch(t) /\ ses[u].g # 0) =>
                /\ ses'[u].g = ses[u].g
                /\ heap'[ses[u].g] = heap[ses[u].g]
                /\ \A a \in Blocks \ {ses[t].g} : heap'[a] = heap[a]]_vars

\* both sessions run; bluetooth switched its headers off and the other
\* session, which has stored a pass rule since, still has them on
C20_Witness ==
    /\ ses["bt"].pc = "read"
    /\ ses["tcp"].pc = "read"
    /\ ses["bt"].line = <<"A", "T", "H", "0">>
    /\ ses["tcp"].line = <<"S", "T", "F", "A", "P", " ", "1", "3", "2", ",", "7", "F", "F">>
    /\ ~heap[ses["bt"].g].elm_headers
    /\ heap[ses["tcp"].g].elm_headers
    /\ heap[ses["bt"].g].pass_filter = ZeroFilters
    /\ heap[ses["tcp"].g].pass_filter # ZeroFilters


\* a well-formed command that adds a pass rule (pass) or a block rule
AddLine(line, pass) ==
    line \in (IF pass THEN {STFPA_132, STFPA_100_0} ELSE {STFBA_257, STFBA_100_0})

\* the rules acknowledged for a list since it was last cleared, and its table
Added(pass) == IF pass THEN pass_rules ELSE block_rules
Table(g, pass) == IF pass THEN g.pass_filter ELSE g.block_filter

\* C21, filter table capacity: STFPA<hex>,<hex> and STFBA<hex>,<hex> are
\* answered '??' exactly when 100 rules were added to their list since it was
\* last cleared, and then the tables are unchanged; otherwise they are
\* answered OK and the list holds exactly one rule more, the other list
\* being unchanged.
C21_FilterCapacity ==
    [][\A pass \in BOOLEAN :
        (disp'.seq # disp.seq /\ AddLine(disp'.line, pass)) =>
            /\ reply' = IF Len(Added(pass)) = ELM_ST_FILTER_LEN
                        THEN <<"??", ELM_NEWLINE(G)>>
                        ELSE <<ELM_OK_PROMPT, ELM_NEWLINE(G)>>
            /\ Len(Added(pass)') = IF Len(Added(pass)) = ELM_ST_FILTER_LEN
                                   THEN ELM_ST_FILTER_LEN
                                   ELSE Len(Added(pass)) + 1
            /\ RuleList(Table(G', pass)) = Added(pass)'
            /\ Table(G', ~pass) = Table(G, ~pass)]_vars

\* what does hold: the same, for a rule with a mask other than 0 added to a
\* list whose rules all have masks other than 0
NonZero(rules) == \A k \in 1 .. Len(rules) : rules[k].mask # U32(0)

FilterCapacityNonZero ==
    [][\A pass \in BOOLEAN :
        (/\ disp'.seq # disp.seq
         /\ disp'.line \in {STFPA_132, STFBA_257}
         /\ AddLine(disp'.line, pass)
         /\ NonZero(Added(pass))) =>
            /\ reply' = IF Len(Added(pass)) = ELM_ST_FILTER_LEN
                        THEN <<"??", ELM_NEWLINE(G)>>
                        ELSE <<ELM_OK_PROMPT, ELM_NEWLINE(G)>>
            /\ RuleList(Table(G', pass)) = Added(pass)'
            /\ Len(Added(pass)') = IF Len(Added(pass)) = ELM_ST_FILTER_LEN
                                   THEN ELM_ST_FILTER_LEN
                                   ELSE Len(Added(pass)) + 1
            /\ G' = [G EXCEPT !.elm_previous_cmd = disp'.line,
                              !.pass_filter = G'.pass_filter,
                              !.block_filter = G'.block_filter]
            /\ Table(G', ~pass) = Table(G, ~pass)]_vars

\* a full pass table has refused a rule
TableFull ==
    /\ disp.line = STFPA_132
    /\ reply = <<"??", ELM_NEWLINE(G)>>
    /\ Len(pass_rules) = ELM_ST_FILTER_LEN

\* task t returned from can_ringbuf_new, from can_ringbuf_del
RegReturn(t, op) == rt'[t].seq # rt[t].seq /\ rt'[t].op = op

\* C22, subscription registry capacity: at most 10 queues are registered;
\* can_ringbuf_new returns a queue and registers it (the registry holds what
\* it held, and the new queue) when fewer than 10 are registered, and returns
\* none and leaves the registry unchanged when 10 are; can_ringbuf_del of a
\* registered queue frees its slot and no other.
C22_RegistryCapacity ==
    /\ [](Cardinality(LiveSubs) <= CAN_MAX_CB)
    /\ [][\A t \in RegTasks :
            /\ RegReturn(t, "new") =>
                  IF Cardinality(LiveSubs) < CAN_MAX_CB
                  THEN /\ rt'[t].ret # NULL
                       /\ Cardinality(LiveSubs') = Cardinality(LiveSubs) + 1
                       /\ Registered' = Registered \cup {Handle(rt'[t].ret)}
                  ELSE /\ rt'[t].ret = NULL
                       /\ can_rx_ringbuf' = can_rx_ringbuf
            /\ (RegReturn(t, "del") /\ Handle(rt[t].buf) \in Registered) =>
                  /\ rt'[t].ret = TRUE
                  /\ Registered' = Registered \ {Handle(rt[t].buf)}
                  /\ Cardinality(LiveSubs') = Cardinality(LiveSubs) - 1]_vars

\* two tasks were each given a queue by can_ringbuf_new, both were stored in
\* the same slot, and the registry holds only the second
RegistryRace ==
    /\ rt[1].pc = "idle" /\ rt[1].buf # NULL
    /\ rt[2].pc = "idle" /\ rt[2].buf # NULL
    /\ Handle(rt[1].buf) \notin Registered
    /\ Handle(rt[2].buf) \in Registered

\* what does hold: a call that finds no free slot returns NULL and changes
\* nothing, and can_ringbuf_del of a registered queue frees exactly its slot
RegistryFullAndDel ==
    [][\A t \in RegTasks :
        /\ (RegReturn(t, "new") /\ rt[t].pc = "idle") =>
              /\ Cardinality(LiveSubs) = CAN_MAX_CB
              /\ rt'[t].ret = NULL
              /\ can_rx_ringbuf' = can_rx_ringbuf
        /\ (RegReturn(t, "del") /\ Handle(rt[t].buf) \in Registered) =>
              /\ rt'[t].ret = TRUE
              /\ Registered' = Registered \ {Handle(rt[t].buf)}
              /\ Cardinality(LiveSubs') = Cardinality(LiveSubs) - 1]_vars

\* can_task ingested a frame
Ingested == nRx' # nRx /\ can_task_pc' = "run"

\* C23: a frame dropped by the rate limiter leaves the rate-limit table
\* unchanged, a forwarded frame stores its own time for its identifier and
\* nothing else, so the table always holds the time of the last forwarded
\* frame of each identifier; and after a forward at t and a drop, a frame at
\* t3 with minInterval <= t3 - t < 2^32 us is forwarded, however close to the
\* dropped frame it is.
C23_DropKeepsReference ==
    /\ [][(Ingested /\ Listed(rx'.id)) =>
            can_id_last_us' =
                IF rx'.fwd
                THEN [can_id_last_us EXCEPT ![CanIdIndex(rx'.id)] = Trunc32(now')]
                ELSE can_id_last_us]_vars
    /\ [](\A id \in BusIds :
            Listed(id) =>
                /\ can_id_last_us[CanIdIndex(id)] = Trunc32(LastForward(id))
                /\ (/\ Pair(id)
                    /\ ~First(id).fwd
                    /\ T64Geq(T64Sub(Second(id).ts, First(id).since), minInterval)
                    /\ T64Sub(Second(id).ts, First(id).since)[1] = 0) =>
                        Second(id).fwd)

\* forwarded at t, dropped at t + 45454 us, forwarded at t + 90909 us: the
\* third frame is closer than minInterval to the dropped one
C23_Witness ==
    \E id \in BusIds :
        /\ Listed(id) /\ Pair(id)
        /\ ~First(id).fwd
        /\ Second(id).fwd
        /\ First(id).since # T64(0)
        /\ ~T64Geq(PairD(id), minInterval)
        /\ T64Sub(Second(id).ts, First(id).since) = minInterval

\* the frame passes elm_filter_test under the FilterSet of the session
PassesNow(frame) == elm_filter_test(G, frame.identifier)

\* the lines _elm_write_can writes for these frames
FrameLines(frames) == [k \in 1 .. Len(frames) |-> ElmWriteCan(G, frames[k])]

ExitReleases ==
    [][\A t \in RegTasks :
            (rt[t].pc = "exit" /\ rt'[t].pc = "idle")
                => \A i \in 1..CAN_MAX_CB :
                    can_rx_ringbuf'[i] = NULL \/ can_rx_ringbuf'[i] # rt[t].buf]_vars

\* C25: every queue a monitor task has registered is removed from the
\* registry when the task leaves, on every exit path, so that once the
\* session has ended the registry eventually holds none of its queues, and
\* keeps none
C25_SubscriptionRelease ==
    /\ ExitReleases
    /\ [](elm_pc = "ended" => <>[](LiveSubs = {}))

\* the session has ended and freed its block while a monitor task it
\* created is in the loop with its queue registered
TaskOutlivesSession ==
    /\ elm_pc = "ended"
    /\ \E t \in RegTasks : rt[t].pc = "loop" /\ rt[t].buf # NULL
    /\ LiveSubs # {}

\* a step of _write, in the session task or in the Bluetooth task
DrainStep ==
    \/ writer.pc \in {"recv", "send", "clear"} /\ writer' # writer
    \/ cb.pc \in {"recv", "send", "clear"} /\ cb' # cb

\* a step of _write in which esp_spp_write did not return ESP_OK: the chunk
\* was given to it and the link has no more writes to report than before
FailedSend == sent'.handed # sent.handed /\ link'.pending = link.pending

\* _write clears spp_writing only after a retrieval that gave nothing, and
\* a failed esp_spp_write leaves spp_writing as it was and ends the _write
DrainFlagKept ==
    [][/\ (DrainStep /\ spp_writing /\ ~spp_writing')
            => (writer.pc = "clear" \/ cb.pc = "clear")
       /\ FailedSend
            => /\ spp_writing' = spp_writing
               /\ writer'.pc # "send" /\ cb'.pc # "send"]_vars

\* C26: a drain attempt clears the in-flight flag only when the ring gave no
\* data; a failed send keeps the flag and ends the attempt; and the chunk of
\* a failed send is not lost: its bytes are the next the ring gives, so that
\* a later drain sends them
C26_DrainFlag ==
    /\ DrainFlagKept
    /\ [][FailedSend
            => /\ Len(spp_tx_buffer'.buf) >= Len(sent'.chunk)
               /\ SubSeq(spp_tx_buffer'.buf, 1, Len(sent'.chunk)) = sent'.chunk]_vars

\* a failed esp_spp_write has left the ring without the bytes of its chunk:
\* the byte was accepted, no write was ever taken, nothing waits
ChunkLost ==
    /\ spp_tx_buffer # NULL
    /\ sent.accepted = 1
    /\ sent.handed = <<1>>
    /\ sent.last = NULL
    /\ link.pending = 0
    /\ spp_tx_buffer.buf = <<>>
    /\ writer.pc = "idle" /\ cb.pc = "idle"
    /\ spp_writing

\* the frames with identifier id in queue i, oldest first
QueuedOf(i, id) ==
    SelectSeq(can_rx_ringbuf[i].items, LAMBDA f : f.identifier = id)

\* C27: in every subscription queue, two frames with the same identifier
\* have capture timestamps at least can_id_delay_us (90909 us) apart,
\* whichever task pushed them
C27_MinInterval ==
    \A i \in LiveSubs : \A id \in BusIds :
        \A j \in 1 .. (Len(QueuedOf(i, id)) - 1) :
            LET q == QueuedOf(i, id)
            IN  /\ T64Geq(q[j + 1].timestamp, q[j].timestamp)
                /\ T64Geq(T64Sub(q[j + 1].timestamp, q[j].timestamp),
                          Widen64(can_id_delay_us))

\* a queue holds a frame 0x132 of the simulation task and, 45454 us later,
\* a frame 0x132 that can_task forwarded
MixedProducers ==
    \E i \in LiveSubs :
        LET q == QueuedOf(i, 306)
        IN  /\ Len(q) = 2
            /\ simu.n = 1
            /\ T64Sub(q[2].timestamp, q[1].timestamp) = T64(45454)
            /\ rx = [id |-> 306, fwd |-> TRUE]

\* the block rules veto, and with pass rules only their identifiers pass
Vetoes(block, pass) ==
    /\ \A k \in 1 .. Len(block) : \A f \in MonFrames :
            RuleMatch(block[k], f.identifier) => ~elm_filter_test(G, f.identifier)
    /\ pass # <<>> =>
            /\ SlotAt(G.pass_filter, 1).mask # U32(0)
            /\ \A f \in MonFrames :
                    elm_filter_test(G, f.identifier) => InList(pass, f.identifier)

\* C28: once STFBA p,m has been answered OK, and until the block list is
\* cleared, no identifier with (id & m) == (p & m) passes the filter,
\* whatever p and m are; once STFPA p,m has been answered OK the pass list
\* is not empty and only identifiers that match a pass rule pass
C28_BlockRule == Vetoes(block_rules, pass_rules)

\* the same for the rules whose mask is not 0
VetoesNonZero ==
    Vetoes(SelectSeq(block_rules, LAMBDA r : r.mask # U32(0)),
           SelectSeq(pass_rules, LAMBDA r : r.mask # U32(0)))

\* STFBA100,0 was answered OK on an empty block list, and 0x132 passes
BlockAllPasses ==
    /\ block_rules = <<Rule(U32(256), U32(0))>>
    /\ pass_rules = <<>>
    /\ disp.line = STFBA_100_0
    /\ reply = <<ELM_OK_PROMPT, ELM_NEWLINE(G)>>
    /\ elm_filter_test(G, U32(306))

\* the protocol characters of elm_protocols: '0'-'9', 'A', 'B', 'C'
KnownProtocols == {elm_protocols[i][1] : i \in 1 .. Len(elm_protocols)}

\* the line is ATSP or ATTP with an argument: what follows the command word
\* and an A for "auto"
IsProtocolLine(line) ==
    \/ StrNCaseEq(SkipSpaces(line), <<"A", "T", "S", "P">>, 4)
    \/ StrNCaseEq(SkipSpaces(line), <<"A", "T", "T", "P">>, 4)

\* the protocol character the line names, after an A for "auto"; NUL if it
\* names none
NamedProtocol(line) ==
    LET c == SkipSpaces(Drop(SkipSpaces(line), 4))
    IN  CharAt(IF CharAt(c, 0) = "A" THEN Drop(c, 1) ELSE c, 0)

\* the dispatch of an ATSP / ATTP line
ProtocolStep == disp'.seq # disp.seq /\ IsProtocolLine(disp'.line)

\* C29: the protocol selector is always one of the known protocol
\* characters, and an ATSP / ATTP line that names an unknown character or
\* none is answered '?' and changes neither the selector nor the auto flag
C29_ProtocolValidated ==
    /\ [](G.elm_protocol \in KnownProtocols)
    /\ [][(ProtocolStep /\ NamedProtocol(disp'.line) \notin KnownProtocols)
            => /\ reply' = <<ELM_QUERY_PROMPT, ELM_NEWLINE(G)>>
               /\ G'.elm_protocol = G.elm_protocol
               /\ G'.elm_protocol_auto = G.elm_protocol_auto]_vars

\* an ATSP / ATTP line that names a known protocol character selects it
\* and is answered OK
KnownProtocolSelected ==
    [][(ProtocolStep /\ NamedProtocol(disp'.line) \in KnownProtocols)
            => /\ reply' = <<ELM_OK_PROMPT, ELM_NEWLINE(G)>>
               /\ G'.elm_protocol = NamedProtocol(disp'.line)]_vars

\* ATSPZ was answered OK and the selector is 'Z', which ATDPN reports as 0
UnknownProtocolSelected ==
    /\ G.elm_protocol = "Z"
    /\ ~G.elm_protocol_auto
    /\ disp.line = <<"A", "T", "S", "P", "Z">>
    /\ reply = <<ELM_OK_PROMPT, ELM_NEWLINE(G)>>

\* the line is the set command AT@3, with or without an argument
IsSetLine(line) == StrNCaseEq(SkipSpaces(line), <<"A", "T", "@", "3">>, 4)

\* the argument text of a set command
SetArg(line) == SkipSpaces(Drop(SkipSpaces(line), 4))

\* a set command was the last line and was answered OK, and the next line is
\* the get command
GetAfterSet ==
    /\ disp'.seq # disp.seq
    /\ IsCmd(disp'.line, <<"A", "T", "@", "2">>)
    /\ IsSetLine(disp.line)
    /\ reply = <<ELM_OK_PROMPT, ELM_NEWLINE(G)>>

\* C30: the get command AT@2 that follows an acknowledged set command AT@3
\* with argument s answers s, and a set command with a non-empty argument is
\* acknowledged with OK
C30_IdentifierRoundTrip ==
    /\ [][GetAfterSet => reply' = SetArg(disp.line) \o <<ELM_NEWLINE(G)>>]_vars
    /\ [][(disp'.seq # disp.seq /\ IsSetLine(disp'.line)
            /\ SetArg(disp'.line) # <<>>)
            => reply' = <<ELM_OK_PROMPT, ELM_NEWLINE(G)>>]_vars

\* only the set command with no argument is acknowledged: the identifier is
\* never set to a text that is not empty, and AT@2 after AT@3 answers the
\* empty text
OnlyEmptyIdentifier ==
    /\ [](G.elm_device_identifier \in {NullStr, StrPtr(<<>>)})
    /\ [][GetAfterSet => (SetArg(disp.line) = <<>> /\ reply' = <<ELM_NEWLINE(G)>>)]_vars
    /\ [][(disp'.seq # disp.seq /\ IsSetLine(disp'.line))
            => reply' = IF SetArg(disp'.line) = <<>>
                        THEN <<ELM_OK_PROMPT, ELM_NEWLINE(G)>>
                        ELSE <<ELM_QUERY_PROMPT, ELM_NEWLINE(G)>>]_vars

\* AT@3 ABC was answered '?' and the identifier is still not set
SetRejected ==
    /\ disp.line = <<"A", "T", "@", "3", " ", "A", "B", "C">>
    /\ reply = <<ELM_QUERY_PROMPT, ELM_NEWLINE(G)>>
    /\ G.elm_device_identifier = NullStr

\* elm_do read a backspace or a delete
EraseStep == KeyStep /\ kb'.key \in {"BS", "DEL"}

\* a backspace or delete takes the last character of a line that is not
\* empty and leaves an empty line as it is, where it writes nothing
BackspaceEdits ==
    [][EraseStep =>
        /\ kb'.line = IF kb.line # <<>>
                      THEN SubSeq(kb.line, 1, Len(kb.line) - 1)
                      ELSE kb.line
        /\ kb.line = <<>> => kb'.out = <<>>]_vars

\* C31: a backspace or delete removes the last character of the line in
\* progress, does nothing on an empty line, and writes the erase sequence
\* only when a character was removed and echo is enabled
C31_LineEditing ==
    /\ BackspaceEdits
    /\ [][EraseStep =>
            kb'.out = IF kb.line # <<>> /\ G.elm_echo
                      THEN <<"BS", " ", "BS">>
                      ELSE <<>>]_vars

\* with echo off a backspace has removed a character and written the erase
\* sequence
EraseWithoutEcho ==
    /\ ~G.elm_echo
    /\ kb.key \in {"BS", "DEL"}
    /\ kb.out = <<"BS", " ", "BS">>
    /\ tx = <<"BS", " ", "BS">>

\* a toggle command with a digit sets its boolean to the digit, answers OK
\* and leaves every other field but the stored previous command as it was
ToggleSets ==
    [][disp'.seq # disp.seq =>
        \A t \in Toggles : \A d \in {"0", "1"} :
            disp'.line = ToggleLine(t, d) =>
                /\ Config(G') = [Config(G) EXCEPT ![t.field] = (d = "1"),
                                                  !.elm_previous_cmd = disp'.line]
                /\ reply' = elm_write_ok(G')]_vars

\* C32: a toggle command AT<name><0|1> sets exactly the named boolean to the
\* digit, answers OK and changes no other field of the configuration but the
\* stored previous command; the same letters with no digit change no field
\* of the configuration but the stored previous command
C32_ToggleCommands ==
    /\ ToggleSets
    /\ [][disp'.seq # disp.seq =>
            \A t \in Toggles :
                disp'.line = BareLine(t) =>
                    Config(G') = [Config(G) EXCEPT !.elm_previous_cmd = disp'.line]]_vars

\* ATCFC was read as the filter command ATCF with the argument C: it was
\* answered OK and the pattern of the AT filter rule is 0xC
BareFlowControlSetsFilter ==
    /\ disp.line = <<"A", "T", "C", "F", "C">>
    /\ reply = elm_write_ok(G)
    /\ G.elm_filter.pattern = U32(12)

\* _read was called with the handle of the open connection
ReceiveStep == bt_op'.seq # bt_op.seq /\ bt_op'.op = "_read" /\ ~bt_op'.mismatch

\* the chunk that call was given
ReceiveChunk == Bytes(rcv.offered, rcv'.offered - rcv.offered)

\* bt_read was called with the handle of the open connection
ReadStep == bt_op'.seq # bt_op.seq /\ bt_op'.op = "bt_read" /\ ~bt_op'.mismatch

\* C33: a chunk received on the open connection is appended whole to the
\* receive ring when it fits and dropped whole, the ring unchanged, when it
\* does not; the bytes the calls of bt_read have returned are the accepted
\* chunks in arrival order, followed by what waits in the ring; each call
\* returns between 0 and count bytes, and 0 only when the ring is empty
C33_ReceivePath ==
    /\ [][ReceiveStep =>
            IF Len(ReceiveChunk) <= spp_rx_buffer.size - Len(spp_rx_buffer.buf)
            THEN /\ spp_rx_buffer'.buf = spp_rx_buffer.buf \o ReceiveChunk
                 /\ rcv'.accepted = rcv.accepted \o ReceiveChunk
            ELSE /\ spp_rx_buffer' = spp_rx_buffer
                 /\ rcv'.accepted = rcv.accepted]_vars
    /\ [](spp_handle # 0 => rcv.given \o spp_rx_buffer.buf = rcv.accepted)
    /\ [](rcv.given = SubSeq(rcv.accepted, 1, Len(rcv.given)))
    /\ [][ReadStep =>
            /\ bt_op'.ret \in 0 .. rcv'.asked
            /\ rcv'.given = rcv.given \o SubSeq(spp_rx_buffer.buf, 1, bt_op'.ret)
            /\ bt_op'.ret = 0 => spp_rx_buffer.buf = <<>>]_vars

\* a chunk was dropped, a later chunk was accepted, and the session has read
\* all the accepted bytes, more than the ring holds, in several calls
ReadAcrossDrop ==
    /\ spp_handle # 0
    /\ Len(rcv.accepted) < rcv.offered
    /\ rcv.accepted # <<>>
    /\ rcv.accepted[Len(rcv.accepted)] = rcv.offered
    /\ Len(rcv.accepted) > RxSize
    /\ rcv.given = rcv.accepted

\* no bt_write call and no drain invocation is in progress
NoDrainInProgress == writer.pc = "idle" /\ cb.pc = "idle"

\* C34: on the open connection, in every state where no bt_write call and no
\* drain invocation is in progress, a transmit ring that is not empty implies
\* that spp_writing is set
C34_InFlightInvariant ==
    (spp_handle # 0 /\ NoDrainInProgress /\ spp_tx_buffer.buf # <<>>) => spp_writing

\* at most one invocation of _write is between its retrieval of a chunk and
\* its return
OneDrainAtATime == ~(writer.pc \in {"recv", "send"} /\ cb.pc \in {"recv", "send", "clear"})

\* at most one drain invocation holds a chunk it took from the ring
OneChunkOut == ~(writer.pc = "send" /\ cb.pc = "send")

\* at most one esp_spp_write is outstanding
OneSendOutstanding == link.pending <= 1

\* C35: at most one invocation of _write at a time holds a chunk taken from
\* the transmit ring, and at most one esp_spp_write is outstanding (taken by
\* the link, its write event not yet delivered)
C35_DrainExclusion == OneChunkOut /\ OneSendOutstanding

\* the stall recovery of bt_write gave a chunk to esp_spp_write while the
\* write before it was still outstanding
StallSendsTwice ==
    /\ bt_call.stall
    /\ bt_call.drained = 1
    /\ link.pending = 2
    /\ ~link.cong

\* C36: the ingest task never sends a frame to a subscription queue that
\* vRingbufferDelete has already freed
C36_FanOutVersusDestroy == fo.late = {}

\* _can_raise read the handle of a queue from its slot and is about to send,
\* and the queue has been freed since
SendAfterDelete ==
    /\ fo.pc = "send"
    /\ fo.rb \in fo.freed

\* C37: a queue that can_ringbuf_new has returned to a monitor task, and that
\* the task has not deleted, is registered: a slot of the registry holds its
\* handle, and no other held queue shares that slot
C37_ConcurrentCreation ==
    \A t \in RegTasks :
        (rt[t].pc = "idle" /\ rt[t].buf # NULL) => Handle(rt[t].buf) \in Registered

\* a monitor task of the session is created and has not ended
TaskAlive == mon.created > 0 \/ \E t \in RegTasks : rt[t].pc # "idle"

\* C38: the session's block is freed at the end of the session only when
\* every monitor task the session created has ended, and once it is freed no
\* monitor task takes a step that reads or writes it
C38_TeardownOrder ==
    /\ [](elm_pc = "ended" => ~TaskAlive)
    /\ [][elm_pc = "ended" => UNCHANGED <<rt, G>>]_vars

\* a monitor task that started after the session had ended is in its loop,
\* where it tests elm_monitor in the freed block
TaskRunsOnFreedBlock ==
    /\ elm_pc = "ended"
    /\ mon.created = 0
    /\ \E t \in RegTasks : rt[t].pc = "loop"
    /\ G.elm_monitor_task_run

\* at most one monitor task of the session is in its loop, where it holds a
\* queue
OneMonitorRunning == mon.run <= 1

\* elm_monitor_stop, called for a byte on the input, returns
StopReturns == elm_pc = "stop_wait" /\ elm_pc' = "read"

\* when elm_monitor_stop returns no monitor task of the session is left
StopWaitsForTask ==
    [][StopReturns => mon'.created + mon'.run + mon'.exit = 0]_vars

\* no frame line is written between the prompt of elm_monitor_stop and the
\* next start of the monitor
NoLineAfterStopPrompt ==
    [][FrameLine => ~(mon.intr = 1 /\ elm_pc # "stop_wait")]_vars

\* C39: at most one monitor task of the session is running and holds a
\* subscription; elm_monitor_stop returns only when the task has ended; and
\* no frame line is written after the prompt elm_monitor_stop writes
C39_SingleMonitor ==
    /\ []OneMonitorRunning
    /\ StopWaitsForTask
    /\ NoLineAfterStopPrompt

\* two monitor tasks of the session are in their loops, each with a queue
TwoMonitorsRunning == mon.run = 2

\* bt_write found the ring full and its stall test sends it into _write
ForcedDrain == writer.pc = "full" /\ writer'.pc = "recv" /\ writer'.from = "stall"

\* the clock is below 2^32 us
BelowWrap == ~T64Geq(now, <<1, 0, 0>>)

\* while the clock is below 2^32 us and a write has been taken on the
\* connection, the forced drain happens only when more than 5 s have passed
\* since that write
StallThresholdBelowWrap ==
    [][(ForcedDrain /\ BelowWrap /\ ~sent.last.null) => StallDue]_vars

\* C40: the forced drain of bt_write's full-ring path happens only when more
\* than 5,000,000 us have passed since the last esp_spp_write that was taken
\* on the connection, whatever the value of the 64-bit clock
C40_StallThreshold == [][ForcedDrain => StallDue]_vars

\* a write was taken at a time of 2^32 us or more, less than 5 s ago, and
\* the stall test of bt_write has forced a drain
EarlyForcedDrain ==
    /\ writer.from = "stall"
    /\ writer.pc = "recv"
    /\ ~sent.last.null
    /\ sent.last.us = now
    /\ ~BelowWrap
============================================================================
